---- MODULE Spec2Model ----
(***************************************************************************)
(* Angular-momentum coupling engine and spin operator algebra of           *)
(* sympy/physics/quantum/spin.py.                                          *)
(*                                                                         *)
(* Number representation.  Every angular momentum j and magnetic number m  *)
(* of a state is stored DOUBLED (the field j holds 2j, the field m holds   *)
(* 2m), so that half-integers are integers.  Deficiencies (diff, diff_max, *)
(* diff_list) and counters are stored at face value.  Arguments of the     *)
(* state constructor are stored in QUARTERS (4j, 4m) so that values that   *)
(* are not half-integers can be offered to the validation.                 *)
(*                                                                         *)
(* Exact numbers.  A fraction is <<n, d>> in lowest terms with d > 0.  A   *)
(* surd [s, q] is s * sqrt(q) with s in {-1,0,1} and q a fraction.  A      *)
(* radical sum (Rad) is a set of [r, c]: the sum of c * sqrt(r) over its   *)
(* members, r squarefree, c a non-zero fraction, one member per r.         *)
(***************************************************************************)
EXTENDS Integers, Sequences, FiniteSets, TLC

\* ------------------------------------------------------------------------
\* Bounds of the model
\* ------------------------------------------------------------------------
MaxN == 4
MaxTwoJ == 2
MaxDim == 18

\* ------------------------------------------------------------------------
\* Exact arithmetic backend (sympy Integer / Rational / sqrt)
\* ------------------------------------------------------------------------
Abs(x) == IF x < 0 THEN -x ELSE x

Sign(x) == IF x < 0 THEN -1 ELSE IF x = 0 THEN 0 ELSE 1

RECURSIVE Gcd(_, _)
Gcd(a, b) == IF b = 0 THEN a ELSE Gcd(b, a % b)

Frac(n, d) ==
    LET g == Gcd(Abs(n), Abs(d))
        s == IF d < 0 THEN -1 ELSE 1
    IN  <<(s * n) \div g, (s * d) \div g>>

FracZero == <<0, 1>>

FracOne == <<1, 1>>

\* cross-reduced product, so that no intermediate exceeds the reduced result
FracMul(a, b) ==
    LET g1 == Gcd(Abs(a[1]), b[2])
        g2 == Gcd(Abs(b[1]), a[2])
    IN  IF a[1] = 0 \/ b[1] = 0 THEN FracZero
        ELSE <<(a[1] \div g1) * (b[1] \div g2), (a[2] \div g2) * (b[2] \div g1)>>

FracAdd(a, b) ==
    LET g == Gcd(a[2], b[2])
    IN  Frac(a[1] * (b[2] \div g) + b[1] * (a[2] \div g), (a[2] \div g) * b[2])

FracNeg(a) == <<-a[1], a[2]>>

RECURSIVE Fact(_)
Fact(n) == IF n <= 1 THEN 1 ELSE n * Fact(n - 1)

\* n = r * t^2 with r squarefree: <<r, t>>
RECURSIVE SqSplitFrom(_, _, _)
SqSplitFrom(r, t, p) ==
    IF p * p > r THEN <<r, t>>
    ELSE IF r % (p * p) = 0 THEN SqSplitFrom(r \div (p * p), t * p, p)
    ELSE SqSplitFrom(r, t, p + 1)

SqSplit(n) == SqSplitFrom(n, 1, 2)

SurdZero == [s |-> 0, q |-> FracZero]

SurdOne == [s |-> 1, q |-> FracOne]

SurdMul(a, b) ==
    IF a.s = 0 \/ b.s = 0 THEN SurdZero
    ELSE [s |-> a.s * b.s, q |-> FracMul(a.q, b.q)]

RECURSIVE SurdProd(_)
SurdProd(seq) ==
    IF seq = <<>> THEN SurdOne ELSE SurdMul(Head(seq), SurdProd(Tail(seq)))

RadZero == {}

RadOne == {[r |-> 1, c |-> FracOne]}

RadCoef(x, r) ==
    IF \E e \in x : e.r = r THEN (CHOOSE e \in x : e.r = r).c ELSE FracZero

RadAdd(x, y) ==
    LET rs == {e.r : e \in x \cup y}
        all == {[r |-> r, c |-> FracAdd(RadCoef(x, r), RadCoef(y, r))] : r \in rs}
    IN  {e \in all : e.c[1] # 0}

\* s * sqrt(n/d) = (s * t / d) * sqrt(r)  where n * d = r * t^2
RadOfSurd(a) ==
    IF a.s = 0 THEN RadZero
    ELSE LET rt == SqSplit(a.q[1] * a.q[2])
         IN  {[r |-> rt[1], c |-> Frac(a.s * rt[2], a.q[2])]}

RadTermMul(e, f) ==
    LET rt == SqSplit(e.r * f.r)
    IN  {[r |-> rt[1], c |-> FracMul(FracMul(e.c, f.c), <<rt[2], 1>>)]}

RECURSIVE RadSumSet(_)
RadSumSet(S) ==
    IF S = {} THEN RadZero
    ELSE LET x == CHOOSE x \in S : TRUE
         IN  RadAdd(x[2], RadSumSet(S \ {x}))

\* the members of S are tagged <<tag, rad>> so that equal values are not merged
RadMul(x, y) ==
    RadSumSet({<<<<e, f>>, RadTermMul(e, f)>> : e \in x, f \in y})

RECURSIVE RadSumSeq(_)
RadSumSeq(seq) ==
    IF seq = <<>> THEN RadZero ELSE RadAdd(Head(seq), RadSumSeq(Tail(seq)))

\* ------------------------------------------------------------------------
\* Clebsch-Gordan coefficient CG(j1,m1,j2,m2,j3,m3).doit()
\* (sympy.physics.quantum.cg, Condon-Shortley convention, Racah's closed
\* form; zero outside the selection rules).  Arguments are doubled.
\* ------------------------------------------------------------------------
CGPhysical(j1, m1, j2, m2, j3, m3) ==
    /\ m1 + m2 = m3
    /\ j1 + j2 - j3 >= 0
    /\ j1 - j2 + j3 >= 0
    /\ j2 - j1 + j3 >= 0
    /\ (j1 + j2 + j3) % 2 = 0
    /\ Abs(m1) <= j1 /\ Abs(m2) <= j2 /\ Abs(m3) <= j3
    /\ (j1 - m1) % 2 = 0 /\ (j2 - m2) % 2 = 0 /\ (j3 - m3) % 2 = 0

RECURSIVE FracFactSeq(_)
FracFactSeq(seq) ==
    IF seq = <<>> THEN 1 ELSE Fact(Head(seq)) * FracFactSeq(Tail(seq))

RECURSIVE CGSum(_, _, _)
CGSum(k, kmax, a) ==
    \* a = <<j1+j2-j3, j1-m1, j2+m2, j3-j2+m1, j3-j1-m2>> at face value
    IF k > kmax THEN FracZero
    ELSE LET args == <<k, a[1] - k, a[2] - k, a[3] - k, a[4] + k, a[5] + k>>
             ok == \A i \in 1..6 : args[i] >= 0
             t == IF ok THEN Frac(IF k % 2 = 0 THEN 1 ELSE -1, FracFactSeq(args))
                  ELSE FracZero
         IN  FracAdd(t, CGSum(k + 1, kmax, a))

RECURSIVE FracMulFacts(_, _)
FracMulFacts(f, seq) ==
    IF seq = <<>> THEN f
    ELSE FracMulFacts(FracMul(f, <<Fact(Head(seq)), 1>>), Tail(seq))

CG(j1, m1, j2, m2, j3, m3) ==
    IF ~CGPhysical(j1, m1, j2, m2, j3, m3) THEN SurdZero
    ELSE LET a1 == (j1 + j2 - j3) \div 2
             a2 == (j1 - j2 + j3) \div 2
             a3 == (j2 - j1 + j3) \div 2
             S == CGSum(0, a1, <<a1, (j1 - m1) \div 2, (j2 + m2) \div 2,
                                 (j3 - j2 + m1) \div 2, (j3 - j1 - m2) \div 2>>)
             S2 == FracMul(S, S)
             p0 == FracMul(S2, Frac(j3 + 1, Fact((j1 + j2 + j3) \div 2 + 1)))
             p1 == FracMulFacts(p0, <<a1, a2, a3,
                       (j1 + m1) \div 2, (j1 - m1) \div 2,
                       (j2 + m2) \div 2, (j2 - m2) \div 2,
                       (j3 + m3) \div 2, (j3 - m3) \div 2>>)
         IN  IF S[1] = 0 THEN SurdZero ELSE [s |-> Sign(S[1]), q |-> p1]

\* ------------------------------------------------------------------------
\* Sequence helpers (Python list operations used by the engine)
\* ------------------------------------------------------------------------
RECURSIVE SumSeq(_)
SumSeq(seq) == IF seq = <<>> THEN 0 ELSE Head(seq) + SumSeq(Tail(seq))

Last(seq) == seq[Len(seq)]

\* seq[:-1]
Front(seq) == SubSeq(seq, 1, Len(seq) - 1)

RECURSIVE Insert(_, _)
Insert(x, seq) ==
    IF seq = <<>> THEN <<x>>
    ELSE IF x <= Head(seq) THEN <<x>> \o seq
    ELSE <<Head(seq)>> \o Insert(x, Tail(seq))

\* sorted(list)
RECURSIVE sorted(_)
sorted(seq) == IF seq = <<>> THEN <<>> ELSE Insert(Head(seq), sorted(Tail(seq)))

\* min(list) of a non-empty list
min(seq) == CHOOSE x \in {seq[i] : i \in 1..Len(seq)} :
                \A i \in 1..Len(seq) : x <= seq[i]

Range(seq) == {seq[i] : i \in 1..Len(seq)}

\* Mul(*range(a, b)): the product of a, a+1, .., b-1 (1 when the range is empty)
RECURSIVE MulRange(_, _)
MulRange(a, b) == IF a >= b THEN 1 ELSE a * MulRange(a + 1, b)

\* Mul(*range(n1, n1+m)) // Mul(*range(1, m+1))
NumConfigs(n1, m) == MulRange(n1, n1 + m) \div MulRange(1, m + 1)

\* ------------------------------------------------------------------------
\* Coupled states
\* ------------------------------------------------------------------------
\* _build_coupled(jcoupling, length): <<coupled_n, coupled_jn>>
RECURSIVE BuildCoupledFrom(_, _, _, _)
BuildCoupledFrom(jcoupling, n_list, coupled_n, coupled_jn) ==
    IF jcoupling = <<>> THEN <<coupled_n, coupled_jn>>
    ELSE LET n1 == Head(jcoupling)[1]
             n2 == Head(jcoupling)[2]
             j_new == Head(jcoupling)[3]
             n_sort == sorted(n_list[n1] \o n_list[n2])
         IN  BuildCoupledFrom(Tail(jcoupling),
                              [n_list EXCEPT ![n_sort[1]] = n_sort],
                              Append(coupled_n, <<n_list[n1], n_list[n2]>>),
                              Append(coupled_jn, j_new))

_build_coupled(jcoupling, length) ==
    BuildCoupledFrom(jcoupling, [n \in 1..length |-> <<n>>], <<>>, <<>>)

\* CoupledSpinState.__new__(cls, j, m, jn, jcoupling=...) with an explicit
\* jcoupling of the right length: the label (j, m, jn, coupled_jn, coupled_n)
CoupledSpinState(j, m, jn, jcoupling) ==
    LET b == _build_coupled(jcoupling, Len(jn))
    IN  [j |-> j, m |-> m, jn |-> jn, coupled_jn |-> b[2], coupled_n |-> b[1]]

\* a default that starts one space too late: (1, n+1, ..) for n in range(2, len(jn))
DefaultJCouplingShifted(jn) ==
    [k \in 1..(Len(jn) - 2) |-> <<1, k + 2, SumSeq(SubSeq(jn, 1, k + 1))>>]

\* the jcoupling CoupledSpinState.__new__ builds when none is given:
\* (1, n, jn[0] + .. + jn[n-1]) for n in range(2, len(jn))
DefaultJCoupling(jn) ==
    [k \in 1..(Len(jn) - 2) |-> <<1, k + 1, SumSeq(SubSeq(jn, 1, k + 1))>>]

\* "ok" or the exception CoupledSpinState.__new__ raises for a jcoupling whose
\* elements all have length 3
CoupledSpinStateValidate(jn, jcoupling) ==
    IF Len(jn) - 2 # Len(jcoupling) THEN "ValueError" ELSE "ok"

\* ------------------------------------------------------------------------
\* couple: validation of jcoupling_list and construction of coupling_list
\* ------------------------------------------------------------------------
\* the default coupling (1,2), (1,3), .., (1,N-1)
DefaultCouplingList(N) == [n \in 1..(N - 2) |-> <<1, n + 1>>]

\* a j_test scan that marks min(n1, n2) instead of max(n1, n2)
RECURSIVE JTestFailsMarkingMin(_, _)
JTestFailsMarkingMin(jcoupling_list, j_test) ==
    IF jcoupling_list = <<>> THEN FALSE
    ELSE LET n1 == Head(jcoupling_list)[1]
             n2 == Head(jcoupling_list)[2]
             mn == IF n1 <= n2 THEN n1 ELSE n2
         IN  \/ j_test[n1] = -1
             \/ j_test[n2] = -1
             \/ JTestFailsMarkingMin(Tail(jcoupling_list), [j_test EXCEPT ![mn] = -1])

\* the j_test scan: TRUE when some pair references an index marked -1
RECURSIVE JTestFails(_, _)
JTestFails(jcoupling_list, j_test) ==
    IF jcoupling_list = <<>> THEN FALSE
    ELSE LET n1 == Head(jcoupling_list)[1]
             n2 == Head(jcoupling_list)[2]
             mx == IF n1 >= n2 THEN n1 ELSE n2
         IN  \/ j_test[n1] = -1
             \/ j_test[n2] = -1
             \/ JTestFails(Tail(jcoupling_list), [j_test EXCEPT ![mx] = -1])

\* "ok" or the exception the validation raises.  The length check formats its
\* message with the undefined name j_coupling_list, which raises NameError
\* before the TypeError is constructed.
CoupleValidate(N, jcoupling_list) ==
    IF Len(jcoupling_list) # N - 2 THEN "NameError"
    ELSE IF \E i \in 1..Len(jcoupling_list) :
                jcoupling_list[i][1] = jcoupling_list[i][2] THEN "ValueError"
    ELSE IF JTestFails(jcoupling_list, [i \in 1..N |-> 0]) THEN "ValueError"
    ELSE "ok"

RECURSIVE CouplingListFrom(_, _, _)
CouplingListFrom(jcoupling_list, n_list, coupling_list) ==
    IF jcoupling_list = <<>>
    THEN \* couple the last two spaces together
         LET n1 == CHOOSE i \in 1..Len(n_list) :
                       /\ n_list[i] # <<>>
                       /\ \A k \in 1..(i - 1) : n_list[k] = <<>>
             n2 == CHOOSE i \in (n1 + 1)..Len(n_list) :
                       /\ n_list[i] # <<>>
                       /\ \A k \in (n1 + 1)..(i - 1) : n_list[k] = <<>>
         IN  Append(coupling_list, <<n_list[n1], n_list[n2]>>)
    ELSE LET n1 == Head(jcoupling_list)[1]
             n2 == Head(jcoupling_list)[2]
             j1_n == n_list[n1]
             j2_n == n_list[n2]
         IN  CouplingListFrom(Tail(jcoupling_list),
                 [n_list EXCEPT ![n1] = sorted(j1_n \o j2_n), ![n2] = <<>>],
                 Append(coupling_list, <<j1_n, j2_n>>))

BuildCouplingList(N, jcoupling_list) ==
    CouplingListFrom(jcoupling_list, [i \in 1..N |-> <<i>>], <<>>)

\* ------------------------------------------------------------------------
\* couple: numerical path
\* ------------------------------------------------------------------------
\* Add(*[states[n-1].j - states[n-1].m for n in coupling[0]+coupling[1]])
DiffMaxOf(states, coupling) ==
    LET ns == coupling[1] \o coupling[2]
    IN  SumSeq([i \in 1..Len(ns) |-> (states[ns[i]].j - states[ns[i]].m) \div 2])

\* a loop body that leaves m as it is
WhileBodyKeepsM(n1, m, config_offset) ==
    [m |-> m, config_offset |-> config_offset + NumConfigs(n1, m)]

\* the body of the while loop: config_offset += Mul(..) // Mul(..); m -= 1
WhileBody(n1, m, config_offset) ==
    [m |-> m - 1, config_offset |-> config_offset + NumConfigs(n1, m)]

\* the while loop of the decoding: <<m, config_offset>> when it exits
RECURSIVE DecodeWhile(_, _, _, _)
DecodeWhile(config_num, n1, m, config_offset) ==
    IF config_num >= NumConfigs(n1, m) + config_offset
    THEN DecodeWhile(config_num, n1, m - 1, config_offset + NumConfigs(n1, m))
    ELSE <<m, config_offset>>

\* for k in range(n): ... diff_list[k] = prev - m
RECURSIVE DecodeFrom(_, _, _, _, _)
DecodeFrom(config_num, n, k, m, config_offset) ==
    IF k = n THEN <<>>
    ELSE LET w == DecodeWhile(config_num, n - k - 1, m, config_offset)
         IN  <<m - w[1]>> \o DecodeFrom(config_num, n, k + 1, w[1], w[2])

\* a decoding that fills diff_list from its last entry to its first
DecodeConfigReversed(config_num, n, m) ==
    LET dl == DecodeFrom(config_num, n, 0, m, 0)
    IN  [i \in 1..n |-> dl[n + 1 - i]]

\* the diff_list decoded from config_num when the decoding starts at m
DecodeConfig(config_num, n, m) == DecodeFrom(config_num, n, 0, m, 0)

\* any([d > m for d, m in zip(diff_list, diff_max)])
NonPhysical(dl, dmax) == \E k \in 1..Len(dl) : dl[k] > dmax[k]

\* Add(*[states[x-1].m for x in ns])
SumM(states, ns) == SumSeq([i \in 1..Len(ns) |-> states[ns[i]].m])

\* the "Determine term" loop: <<cg_terms, jcoupling>>
RECURSIVE CoupleTermsFrom(_, _, _, _, _, _)
CoupleTermsFrom(states, cl, dl, coupled_j, cg_terms, jcoupling) ==
    IF cl = <<>> THEN <<cg_terms, jcoupling>>
    ELSE LET j1_n == Head(cl)[1]
             j2_n == Head(cl)[2]
             j1 == coupled_j[min(j1_n)]
             j2 == coupled_j[min(j2_n)]
             j3 == j1 + j2 - 2 * Head(dl)
             m1 == SumM(states, j1_n)
             m2 == SumM(states, j2_n)
             m3 == m1 + m2
         IN  CoupleTermsFrom(states, Tail(cl), Tail(dl),
                 [coupled_j EXCEPT ![min(j1_n \o j2_n)] = j3],
                 Append(cg_terms, <<j1, m1, j2, m2, j3, m3>>),
                 Append(jcoupling, <<min(j1_n), min(j2_n), j3>>))

\* variant of CGProduct: the coefficient of the last merge is left out
CGProductButLast(cg_terms) ==
    SurdProd([i \in 1..(Len(cg_terms) - 1) |->
        CG(cg_terms[i][1], cg_terms[i][2], cg_terms[i][3],
           cg_terms[i][4], cg_terms[i][5], cg_terms[i][6])])

\* Mul(*[CG(*term).doit() for term in cg_terms])
CGProduct(cg_terms) ==
    SurdProd([i \in 1..Len(cg_terms) |->
        CG(cg_terms[i][1], cg_terms[i][2], cg_terms[i][3],
           cg_terms[i][4], cg_terms[i][5], cg_terms[i][6])])

\* variant of CoupleTerm: the state is given jcoupling instead of
\* jcoupling[:-1]
CoupleTermAllRecords(states, cl, dl) ==
    LET jn == [i \in 1..Len(states) |-> states[i].j]
        t == CoupleTermsFrom(states, cl, dl, jn, <<>>, <<>>)
        j3 == Last(t[1])[5]
        m3 == Last(t[1])[6]
    IN  [coeff |-> SurdProd([i \in 1..Len(t[1]) |->
                      CG(t[1][i][1], t[1][i][2], t[1][i][3],
                         t[1][i][4], t[1][i][5], t[1][i][6])]),
         state |-> CoupledSpinState(j3, m3, jn, t[2]),
         diff_list |-> dl,
         cg_terms |-> t[1],
         jcoupling |-> t[2]]

\* the value appended for one configuration: coeff * state, kept with the
\* locals it was built from (diff_list, cg_terms)
CoupleTerm(states, cl, dl) ==
    LET jn == [i \in 1..Len(states) |-> states[i].j]
        t == CoupleTermsFrom(states, cl, dl, jn, <<>>, <<>>)
        j3 == Last(t[1])[5]
        m3 == Last(t[1])[6]
    IN  [coeff |-> CGProduct(t[1]),
         state |-> CoupledSpinState(j3, m3, jn, Front(t[2])),
         diff_list |-> dl,
         cg_terms |-> t[1],
         jcoupling |-> t[2]]

\* Add(*result): like terms collected, zero products dropped
AddTerms(res) ==
    LET sts == {res[i].state : i \in 1..Len(res)}
        coef(st) == RadSumSet({<<i, RadOfSurd(res[i].coeff)>> :
                                  i \in {k \in 1..Len(res) : res[k].state = st}})
    IN  {[state |-> st, coeff |-> coef(st)] : st \in {x \in sts : coef(x) # RadZero}}

\* ------------------------------------------------------------------------
\* uncouple
\* ------------------------------------------------------------------------
\* the loop over zip(coupled_jn, coupled_n): <<coupling_list, j_list>>
RECURSIVE UncoupleListFrom(_, _, _, _)
UncoupleListFrom(coupled_jn, coupled_n, j_list, cl) ==
    IF coupled_jn = <<>> \/ coupled_n = <<>> THEN <<cl, j_list>>
    ELSE LET j3 == Head(coupled_jn)
             n1 == Head(coupled_n)[1]
             n2 == Head(coupled_n)[2]
             j1 == j_list[n1[1]]
             j2 == j_list[n2[1]]
         IN  UncoupleListFrom(Tail(coupled_jn), Tail(coupled_n),
                              [j_list EXCEPT ![min(n1 \o n2)] = j3],
                              Append(cl, <<n1, n2, j1, j2, j3>>))

\* [n for n in range(1, len(jn)+1) if n not in n1]
RECURSIVE NotIn(_, _, _)
NotIn(n, N, n1) ==
    IF n > N THEN <<>>
    ELSE (IF n \in Range(n1) THEN <<>> ELSE <<n>>) \o NotIn(n + 1, N, n1)

\* the coupling_list uncouple rebuilds: entries (n1, n2, j1, j2, j3), the last
\* one coupling the last two spaces to the state's j
UncoupleCouplingList(j, jn, coupled_n, coupled_jn) ==
    LET b == UncoupleListFrom(coupled_jn, coupled_n, jn, <<>>)
        j_list == b[2]
        n1 == IF Len(jn) > 2
              THEN sorted(Last(coupled_n)[1] \o Last(coupled_n)[2]) ELSE <<1>>
        j1 == IF Len(jn) > 2 THEN Last(coupled_jn) ELSE j_list[1]
        n2 == IF Len(jn) > 2 THEN NotIn(1, Len(jn), n1) ELSE <<2>>
        j2 == IF Len(jn) > 2 THEN j_list[n2[1]] ELSE j_list[2]
    IN  Append(b[1], <<n1, n2, j1, j2, j>>)

\* diff = Add(*jn) - m
UncoupleDiff(jn, m) == (SumSeq(jn) - m) \div 2

\* variant of UncoupleDiffMax: the bound is one too large
UncoupleDiffMaxPlusOne(jn) == [i \in 1..Len(jn) |-> jn[i] + 1]

\* diff_max = [2*x for x in jn]
UncoupleDiffMax(jn) == [i \in 1..Len(jn) |-> jn[i]]

\* Add(*[jn[x-1] - diff_list[x-1] for x in ns])
SumJnM(jn, dl, ns) == SumSeq([i \in 1..Len(ns) |-> jn[ns[i]] - 2 * dl[ns[i]]])

\* the cg_terms of one configuration
UncoupleCGTerms(cl, jn, dl) ==
    [i \in 1..Len(cl) |->
        <<cl[i][3], SumJnM(jn, dl, cl[i][1]),
          cl[i][4], SumJnM(jn, dl, cl[i][2]),
          cl[i][5], SumJnM(jn, dl, cl[i][1] \o cl[i][2])>>]

\* the value appended for one configuration:
\* coeff * TensorProduct(*[evect(j, j - d) for j, d in zip(jn, diff_list)])
UncoupleTerm(cl, jn, dl) ==
    LET t == UncoupleCGTerms(cl, jn, dl)
    IN  [coeff |-> CGProduct(t),
         state |-> [i \in 1..Len(jn) |-> [j |-> jn[i], m |-> jn[i] - 2 * dl[i]]],
         diff_list |-> dl,
         cg_terms |-> t]

\* the result list of the whole numerical loop, from config_num on
RECURSIVE UncoupleResultFrom(_, _, _, _, _)
UncoupleResultFrom(cn, total, cl, jn, d) ==
    IF cn >= total THEN <<>>
    ELSE LET dl == DecodeConfig(cn, Len(jn), d)
         IN  (IF NonPhysical(dl, UncoupleDiffMax(jn)) THEN <<>>
              ELSE <<UncoupleTerm(cl, jn, dl)>>)
             \o UncoupleResultFrom(cn + 1, total, cl, jn, d)

\* uncouple(state) of a coupled state with numeric j, m
uncouple(st) ==
    LET cl == UncoupleCouplingList(st.j, st.jn, st.coupled_n, st.coupled_jn)
        d == UncoupleDiff(st.jn, st.m)
    IN  AddTerms(UncoupleResultFrom(0, NumConfigs(Len(st.jn), d), cl, st.jn, d))

\* ------------------------------------------------------------------------
\* Linear combinations: sets of [state, coeff] with coeff a non-zero Rad
\* ------------------------------------------------------------------------
\* uncouple of a sum: the sum over e in lc of e.coeff * uncouple(e.state)
UncoupleSum(lc) ==
    LET img == [e \in lc |-> uncouple(e.state)]
        parts == UNION {{<<e, u>> : u \in img[e]} : e \in lc}
        sts == {pt[2].state : pt \in parts}
        coef(s) == RadSumSet({<<pt, RadMul(pt[1].coeff, pt[2].coeff)>> :
                                 pt \in {q \in parts : q[2].state = s}})
    IN  {[state |-> s, coeff |-> coef(s)] : s \in {x \in sts : coef(x) # RadZero}}

\* the sum of the squared coefficients
Norm2(lc) == RadSumSet({<<e.state, RadMul(e.coeff, e.coeff)>> : e \in lc})

\* ------------------------------------------------------------------------
\* Plain states: SpinState.__new__(cls, j, m) with numeric arguments given in
\* quarters (j4 = 4j, m4 = 4m)
\* ------------------------------------------------------------------------
\* int(x) of the rational n/d: truncation toward zero
IntTrunc(n, d) == Sign(n) * (Abs(n) \div d)

\* 2*x == int(2*x), x = x4/4
TwiceIsInt(x4) == x4 = 2 * IntTrunc(x4, 2)

\* "ok" or the exception raised by the validation
SpinStateValidate(j4, m4) ==
    IF ~TwiceIsInt(j4) THEN "ValueError"
    ELSE IF ~TwiceIsInt(m4) THEN "ValueError"
    ELSE IF j4 < 0 THEN "ValueError"
    ELSE IF Abs(m4) > j4 THEN "ValueError"
    ELSE "ok"

\* the state constructed from accepted arguments (label stored doubled)
SpinState(j4, m4) == [j |-> j4 \div 2, m |-> m4 \div 2]

\* ------------------------------------------------------------------------
\* Wigner D-function, WignerD._eval_wignerd with alpha = gamma = 0.
\* Complex values are [re, im] with Rad parts.
\* ------------------------------------------------------------------------
RECURSIVE binomial(_, _)
binomial(n, k) ==
    IF k < 0 \/ k > n THEN 0
    ELSE IF k = 0 THEN 1
    ELSE (binomial(n - 1, k - 1) * n) \div k

RECURSIVE Pow2(_)
Pow2(n) == IF n <= 0 THEN 1 ELSE 2 * Pow2(n - 1)

\* the sum over k of the branch beta == pi/2
RECURSIVE WignerKSum(_, _, _, _)
WignerKSum(k, j, m, mp) ==
    IF k > j THEN 0
    ELSE (IF 2 * k > j + mp \/ 2 * k > j - m \/ 2 * k < mp - m THEN 0
          ELSE (IF k % 2 = 0 THEN 1 ELSE -1)
               * binomial((j + mp) \div 2, k)
               * binomial((j - mp) \div 2, k + (m - mp) \div 2))
         + WignerKSum(k + 1, j, m, mp)

\* a variant of WignerHalfPi without the factor (-1)**(m-mp)
WignerHalfPiUnsigned(j, m, mp) ==
    LET r == WignerKSum(0, j, m, mp)
        ratio == Frac(Fact((j + m) \div 2) * Fact((j - m) \div 2),
                      Fact((j + mp) \div 2) * Fact((j - mp) \div 2))
    IN  IF r = 0 THEN SurdZero
        ELSE [s |-> Sign(r), q |-> FracMul(Frac(r * r, Pow2(j)), ratio)]

\* d(j, m, mp, pi/2): r * (-1)**(m-mp) / 2**j * sqrt(factorial ratio)
WignerHalfPi(j, m, mp) ==
    LET r == WignerKSum(0, j, m, mp)
        sg == IF ((m - mp) \div 2) % 2 = 0 THEN 1 ELSE -1
        ratio == Frac(Fact((j + m) \div 2) * Fact((j - m) \div 2),
                      Fact((j + mp) \div 2) * Fact((j - mp) \div 2))
    IN  IF r = 0 THEN SurdZero
        ELSE [s |-> Sign(r) * sg,
              q |-> FracMul(Frac(r * r, Pow2(j)), ratio)]

RadNeg(x) == {[r |-> e.r, c |-> FracNeg(e.c)] : e \in x}

\* z * I**n
TimesIPow(z, n) ==
    LET k == n % 4
    IN  IF k = 0 THEN z
        ELSE IF k = 1 THEN [re |-> RadNeg(z.im), im |-> z.re]
        ELSE IF k = 2 THEN [re |-> RadNeg(z.re), im |-> RadNeg(z.im)]
        ELSE [re |-> z.im, im |-> RadNeg(z.re)]

\* the branch beta != pi/2 evaluated at beta = 0, where
\* cos(-mpp*beta) + I*sin(-mpp*beta) = 1
WignerZero(j, m, mp) ==
    LET r == RadSumSet({<<i, RadOfSurd(SurdMul(WignerHalfPi(j, m, j - 2 * i),
                                                WignerHalfPi(j, j - 2 * i, -mp)))>> :
                           i \in 0..j})
        z == TimesIPow([re |-> r, im |-> RadZero], (2 * j - m - mp) \div 2)
    IN  IF m % 2 = 0 THEN z ELSE TimesIPow(z, 2)

COne == [re |-> RadOne, im |-> RadZero]

CZero == [re |-> RadZero, im |-> RadZero]

\* product of two complex values
CMul(z, w) ==
    [re |-> RadAdd(RadMul(z.re, w.re), RadNeg(RadMul(z.im, w.im))),
     im |-> RadAdd(RadMul(z.re, w.im), RadMul(z.im, w.re))]

RadHalfSqrt2 == {[r |-> 2, c |-> Frac(1, 2)]}

\* exp(-I*pi*n/4)
CExp8(n) ==
    LET k == n % 8
        h == RadHalfSqrt2
    IN  CASE k = 0 -> COne
          [] k = 1 -> [re |-> h, im |-> RadNeg(h)]
          [] k = 2 -> [re |-> RadZero, im |-> RadNeg(RadOne)]
          [] k = 3 -> [re |-> RadNeg(h), im |-> RadNeg(h)]
          [] k = 4 -> [re |-> RadNeg(RadOne), im |-> RadZero]
          [] k = 5 -> [re |-> RadNeg(h), im |-> h]
          [] k = 6 -> [re |-> RadZero, im |-> RadOne]
          [] OTHER -> [re |-> h, im |-> h]

\* the k of range(2*j+1) that the branch beta == pi/2 does not skip
WignerKs(j, m, mp) ==
    {k \in 0..j : ~(2 * k > j + mp \/ 2 * k > j - m \/ 2 * k < mp - m)}

\* ------------------------------------------------------------------------
\* Spin operators on a plain Jz ket.  A result is a linear combination: a set
\* of [state, hbar, coeff] standing for coeff * hbar**hbar * state; the empty
\* set is S.Zero.  An application yields [raised, value]: raised is the
\* exception that escaped ("none" when the value was returned).
\* ------------------------------------------------------------------------
Returns(v) == [raised |-> "none", value |-> v]

Raises(e) == [raised |-> e, value |-> {}]

RadOfFrac(f) == IF f[1] = 0 THEN RadZero ELSE {[r |-> 1, c |-> f]}

\* JzKet(j, m) built inside an operator, arguments doubled
KetValidate(j, m) == SpinStateValidate(2 * j, 2 * m)

\* JplusOp._apply_operator_JzKet
JplusOnJzKet(ket) ==
    LET j == ket.j
        m == ket.m
    IN  IF m >= j THEN Returns({})
        ELSE IF KetValidate(j, m + 2) # "ok" THEN Raises(KetValidate(j, m + 2))
        ELSE Returns({[state |-> [j |-> j, m |-> m + 2], hbar |-> 1,
                       coeff |-> RadOfSurd([s |-> 1,
                                            q |-> Frac(j * (j + 2) - m * (m + 2), 4)])]})

\* JminusOp._apply_operator_JzKet
JminusOnJzKet(ket) ==
    LET j == ket.j
        m == ket.m
    IN  IF m <= -j THEN Returns({})
        ELSE IF KetValidate(j, m - 2) # "ok" THEN Raises(KetValidate(j, m - 2))
        ELSE Returns({[state |-> [j |-> j, m |-> m - 2], hbar |-> 1,
                       coeff |-> RadOfSurd([s |-> 1,
                                            q |-> Frac(j * (j + 2) - m * (m - 2), 4)])]})

\* variant of J2OnJzKet: the eigenvalue is hbar**2*j**2
J2OnJzKetSquare(ket) ==
    IF ket.j = 0 THEN [raised |-> "none", value |-> {}]
    ELSE [raised |-> "none",
          value |-> {[state |-> ket, hbar |-> 2,
                      coeff |-> {[r |-> 1, c |-> Frac(ket.j * ket.j, 4)]}]}]

\* J2Op._apply_operator_JzKet
J2OnJzKet(ket) ==
    LET c == RadOfFrac(Frac(ket.j * (ket.j + 2), 4))
    IN  IF c = RadZero THEN Returns({})
        ELSE Returns({[state |-> ket, hbar |-> 2, coeff |-> c]})

\* SpinState._rewrite_basis(Jz, JzKet) of a Jz ket with numeric j:
\* Add(*[vect[i] * evect(j, j-i) for i in range(2*j+1)]) with
\* vect[i] = Rotation.D(j, j-i, m, 0, 0, 0).doit()
RewriteJzKetAsJz(ket) ==
    {e \in {[state |-> [j |-> ket.j, m |-> ket.j - 2 * i],
             coeff |-> WignerZero(ket.j, ket.j - 2 * i, ket.m)] : i \in 0..ket.j} :
        e.coeff # CZero}

\* SpinOpBase._apply_op(ket, 'Jz') of JzOp on a Jz ket
JzOnJzKet(ket) ==
    LET st == RewriteJzKetAsJz(ket)
    IN  IF \E e \in st : st = {e} /\ e.coeff = COne
        THEN \* the rewritten state is a single State
             LET e == CHOOSE e \in st : TRUE
                 c == RadOfFrac(Frac(e.state.m, 2))
             IN  IF c = RadZero THEN Returns({})
                 ELSE Returns({[state |-> e.state, hbar |-> 1, coeff |-> c]})
        ELSE \* qapply(self*state) of a sum: not reached from a Jz ket
             Raises("NotImplementedError")

\* the class attribute basis of the operator classes; J2Op defines none
basis == [Jplus |-> "Jz", Jminus |-> "Jz", Jx |-> "Jx", Jy |-> "Jy", Jz |-> "Jz"]

\* SpinOpBase._apply_op(ket, orig_basis) of the operator called name on a ket
\* of the operator's own basis: reading self.basis raises AttributeError when
\* the class has none; otherwise the ket is rewritten at angles 0, which is the
\* computation of JzOnJzKet whatever the basis
_apply_op(name, k) ==
    IF name \notin DOMAIN basis THEN Raises("AttributeError")
    ELSE JzOnJzKet(k)

\* WignerD(j, m, mp, alpha, beta, gamma)._eval_wignerd().  w.numeric is
\* j.is_number; j, m, mp are doubled; the angles are given in units of pi/2,
\* beta being pi/2 (first branch) or 0 (second branch); exp(-I*m*alpha) is
\* exp(-I*pi*(2m * alpha)/4) in these units.
_eval_wignerd(w) ==
    IF ~w.numeric THEN Raises("ValueError")
    ELSE LET r == IF w.beta = 1
                  THEN [re |-> RadOfSurd(WignerHalfPi(w.j, w.m, w.mp)), im |-> RadZero]
                  ELSE WignerZero(w.j, w.m, w.mp)
         IN  Returns(CMul(r, CMul(CExp8(w.m * w.alpha), CExp8(w.mp * w.gamma))))

\* ------------------------------------------------------------------------
\* Spin operators on a coupled Jz ket
\* ------------------------------------------------------------------------
\* the properties that SpinState and CoupledSpinState define on a coupled ket
CoupledSpinStateProperties == {"j", "m", "jn", "coupled_jn", "coupled_n"}

\* ket.<attr> of a coupled ket succeeds for a defined property only
HasProperty(attr) == attr \in CoupledSpinStateProperties

\* JplusOp._apply_operator_JzKetCoupled(ket): j = ket.j; m = ket.m;
\* jvals = ket.jvals comes before the test of m against j.  The statements
\* after it are the ones of the source with jvals standing for the remaining
\* arguments of the ket.
JplusOnJzKetCoupled(k) ==
    LET j == k.j
        m == k.m
    IN  IF ~HasProperty("jvals") THEN Raises("AttributeError")
        ELSE IF m >= j THEN Returns({})
        ELSE Returns({[state |-> [k EXCEPT !.m = m + 2], hbar |-> 1,
                       coeff |-> RadOfSurd([s |-> 1,
                                            q |-> Frac(j * (j + 2) - m * (m + 2), 4)])]})

\* JminusOp._apply_operator_JzKetCoupled(ket)
JminusOnJzKetCoupled(k) ==
    LET j == k.j
        m == k.m
    IN  IF ~HasProperty("jvals") THEN Raises("AttributeError")
        ELSE IF m <= -j THEN Returns({})
        ELSE Returns({[state |-> [k EXCEPT !.m = m - 2], hbar |-> 1,
                       coeff |-> RadOfSurd([s |-> 1,
                                            q |-> Frac(j * (j + 2) - m * (m - 2), 4)])]})

\* JxOp._apply_operator_JzKetCoupled and JyOp._apply_operator_JzKetCoupled:
\* jp and jm are computed in this order, then (jp + jm)/2 for Jx and
\* (jp - jm)/(2*I) for Jy, held unevaluated
JxyOnJzKetCoupled(name, k) ==
    LET jp == JplusOnJzKetCoupled(k)
        jm == JminusOnJzKetCoupled(k)
    IN  IF jp.raised # "none" THEN jp
        ELSE IF jm.raised # "none" THEN jm
        ELSE Returns({[jp |-> jp.value, jm |-> jm.value,
                       sign |-> IF name = "Jx" THEN 1 ELSE -1,
                       denom |-> IF name = "Jx" THEN "2" ELSE "2*I"]})

\* operator._apply_operator_JzKetCoupled(ket)
ApplyToCoupled(name, k) ==
    CASE name = "Jplus" -> JplusOnJzKetCoupled(k)
      [] name = "Jminus" -> JminusOnJzKetCoupled(k)
      [] OTHER -> JxyOnJzKetCoupled(name, k)

\* ------------------------------------------------------------------------
\* Commutators.  A value is re*hbar*op(name) + im*I*hbar*op(name); S.Zero has
\* op = "Zero", and a pair of classes without a rule has op = "None".
\* ------------------------------------------------------------------------
OpClasses == {"Jplus", "Jminus", "Jx", "Jy", "Jz", "J2"}

CommValue(re, im, o) == [re |-> re, im |-> im, op |-> o]

\* the methods _eval_commutator_<class of other> of each operator class
CommutatorRules ==
    [Jplus |-> [Jminus |-> CommValue(2, 0, "Jz")],
     Jminus |-> [c \in {} |-> CommValue(0, 0, "None")],
     Jx |-> [Jy |-> CommValue(0, 1, "Jz"), Jz |-> CommValue(0, -1, "Jy")],
     Jy |-> [Jz |-> CommValue(0, 1, "Jx"), Jx |-> CommValue(0, -1, "J2")],
     Jz |-> [Jx |-> CommValue(0, 1, "Jy"), Jy |-> CommValue(0, -1, "Jx"),
             Jplus |-> CommValue(1, 0, "Jplus"),
             Jminus |-> CommValue(-1, 0, "Jminus")],
     J2 |-> [c \in {"Jx", "Jy", "Jz", "Jplus", "Jminus"} |-> CommValue(0, 0, "Zero")]]

\* self._eval_commutator_<class of other>(other), self of class a and other
\* of class b
_eval_commutator(a, b) ==
    IF b \in DOMAIN CommutatorRules[a] THEN CommutatorRules[a][b]
    ELSE CommValue(0, 0, "None")

\* -value
CommNeg(v) == [v EXCEPT !.re = -v.re, !.im = -v.im]

\* names of the systems the operators act on
OpNames == {"J", "S"}

\* ------------------------------------------------------------------------
\* Finite probability spaces (module frv).  A space has one symbol X; a
\* density maps the values of X to probabilities, held as integers in units
\* of 1/MaxN.  A dict is a function over its set of keys.
\* ------------------------------------------------------------------------
RECURSIVE SumProb(_, _)
SumProb(d, S) ==
    IF S = {} THEN 0
    ELSE LET k == CHOOSE k \in S : TRUE
         IN  d[k] + SumProb(d, S \ {k})

\* expr.subs(dict(elem)) for the expressions X and X**2 - 3*X of the symbol
Subs(expr, v) == IF expr = "X" THEN v ELSE v * v - 3 * v

\* FinitePSpace.compute_density(expr): d[val] = d.get(val, 0) + prob over the
\* elements of the domain
compute_density(density, expr) ==
    LET vals == {Subs(expr, v) : v \in DOMAIN density}
    IN  [val \in vals |->
            SumProb(density, {v \in DOMAIN density : Subs(expr, v) = val})]

\* the body of FinitePSpace.compute_cdf: running sum over sorted(d.items())
CdfOf(d) == [key \in DOMAIN d |-> SumProb(d, {k \in DOMAIN d : k <= key})]

\* the body of FinitePSpace.sorted_cdf: sorted(items, key=cum_prob) of the
\* items of a dict.  sorted is stable and a dict iterates in no specified
\* order, so entries of equal cum_prob come in any order.  float(cum_prob)
\* keeps the order of the rationals and float(1) is 1.0.
SortedOrders(cdf) ==
    LET n == Cardinality(DOMAIN cdf)
        orders == {o \in [1..n -> DOMAIN cdf] :
                      \A i \in 1..n : \A k \in 1..n : i < k =>
                          o[i] # o[k] /\ cdf[o[i]] <= cdf[o[k]]}
    IN  {[i \in 1..n |-> <<o[i], cdf[o[i]]>>] : o \in orders}

\* the scan of FinitePSpace.sample for the draw x, given in units of
\* 1/(2*MaxN): the first entry with x < cum_prob, or the final assertion
SampleScan(cdf, x) ==
    LET hits == {i \in 1..Len(cdf) : x < 2 * cdf[i][2]}
    IN  IF hits = {} THEN Raises("AssertionError")
        ELSE Returns(cdf[CHOOSE i \in hits : \A k \in hits : i <= k][1])

\* ConditionalFiniteDomain._test(elem) for the conditions X > k and Eq(X, k)
_test(cond, v) == IF cond.rel = ">" THEN v > cond.k ELSE v = cond.k

\* ConditionalFiniteDomain(domain, condition): the object is created by
\* __new__ and passed to __init__, which raises ValueError for a foreign
\* symbol and otherwise returns ConditionalDomain(domain, condition); an
\* __init__ that returns anything but None makes the call raise TypeError
ConditionalFiniteDomain(dom, cond) ==
    LET init == IF cond.foreign THEN Raises("ValueError")
                ELSE Returns("ConditionalDomain")
    IN  IF init.raised # "none" THEN init
        ELSE IF init.value # "None" THEN Raises("TypeError")
        ELSE Returns([fulldomain |-> dom, condition |-> cond])

\* ConditionalFiniteDomain.__iter__ and __contains__
DomainIter(cd) == {v \in cd.fulldomain : _test(cd.condition, v)}

DomainContains(cd, v) == v \in cd.fulldomain /\ _test(cd.condition, v)

\* FinitePSpace.where(condition)
where(density, cond) == ConditionalFiniteDomain(DOMAIN density, cond)

\* FinitePSpace.P(condition): sum of prob_of(elem) over where(condition)
P(density, cond) ==
    LET w == where(density, cond)
    IN  IF w.raised # "none" THEN w
        ELSE Returns(SumProb(density, DomainIter(w.value)))

\* FinitePSpace.conditional_space(condition): the density of the new space,
\* each entry val / prob as a reduced fraction; 0/0 (nan) is <<0, 0>> and a
\* positive value over 0 (zoo) is <<1, 0>>
conditional_space(density, cond) ==
    LET w == where(density, cond)
        p == P(density, cond)
    IN  IF w.raised # "none" THEN w
        ELSE IF p.raised # "none" THEN p
        ELSE Returns([key \in {k \in DOMAIN density : DomainContains(w.value, k)} |->
                         IF p.value = 0 THEN <<Sign(density[key]), 0>>
                         ELSE Frac(density[key], p.value)])

\* a dict with the entry k: v added
Put(c, k, v) == [x \in DOMAIN c \cup {k} |-> IF x = k THEN v ELSE c[x]]

\* self.compute_cdf(expr) under cacheit, for the space f: the stored result
\* when the arguments are in the cache; otherwise the body runs and its
\* result is stored.  A result is the dict together with items, its items in
\* the order that sorting them by cum_prob gives for this dict object.
CachedCdf(f, expr, items) ==
    IF expr \in DOMAIN f.cdf_cache
    THEN [ret |-> f.cdf_cache[expr], enumerated |-> FALSE, f |-> f]
    ELSE LET r == [dict |-> CdfOf(compute_density(f.density, expr)), items |-> items]
         IN  [ret |-> r, enumerated |-> TRUE,
              f |-> [f EXCEPT !.cdf_cache = Put(@, expr, r)]]

\* self.sorted_cdf(expr, python_float) under cacheit
CachedSorted(f, expr, python_float, items) ==
    IF <<expr, python_float>> \in DOMAIN f.sorted_cache
    THEN [ret |-> f.sorted_cache[<<expr, python_float>>], enumerated |-> FALSE,
          f |-> f]
    ELSE LET c == CachedCdf(f, expr, items)
         IN  [ret |-> c.ret.items, enumerated |-> c.enumerated,
              f |-> [c.f EXCEPT !.sorted_cache =
                                    Put(@, <<expr, python_float>>, c.ret.items)]]

\* ------------------------------------------------------------------------
\* Operators on a tensor product of plain Jz kets.  A factor is held as a
\* linear combination, a ket k as 1 * hbar**0 * k, so that a tensor product
\* is a list of linear combinations.
\* ------------------------------------------------------------------------
KetAsSum(k) == {[state |-> k, hbar |-> 0, coeff |-> RadOne]}

ArgsAsSums(tpargs) == [i \in 1..Len(tpargs) |-> KetAsSum(tpargs[i])]

\* self._apply_operator(tp.args[n]) for a Jz ket
ApplyToFactor(name, k) ==
    CASE name = "Jplus" -> JplusOnJzKet(k)
      [] name = "Jminus" -> JminusOnJzKet(k)
      [] name = "J2" -> J2OnJzKet(k)
      [] OTHER -> JzOnJzKet(k)

\* a loop body that puts the new factor first instead of at position n
TensorArgFirst(tpargs, n, v) ==
    <<v>> \o ArgsAsSums(SubSeq(tpargs, 1, n - 1))
          \o ArgsAsSums(SubSeq(tpargs, n + 1, Len(tpargs)))

\* arg = tp.args[:n] + [self._apply_operator(tp.args[n])] + tp.args[n+1:],
\* n counted from 1
TensorArg(tpargs, n, v) ==
    ArgsAsSums(SubSeq(tpargs, 1, n - 1)) \o <<v>>
        \o ArgsAsSums(SubSeq(tpargs, n + 1, Len(tpargs)))

\* the list result of SpinOpBase._apply_operator_TensorProduct, or the
\* exception that escapes
TensorResult(name, tpargs) ==
    IF name = "J2" THEN Raises("NotImplementedError")
    ELSE LET r == [n \in 1..Len(tpargs) |-> ApplyToFactor(name, tpargs[n])]
             bad == {n \in 1..Len(tpargs) : r[n].raised # "none"}
         IN  IF bad # {}
             THEN Raises(r[CHOOSE n \in bad : \A k \in bad : n <= k].raised)
             ELSE Returns([n \in 1..Len(tpargs) |-> TensorArg(tpargs, n, r[n].value)])

\* Add(*result).expand() where entry n of result differs from the kets in
\* factor n only: a set of [state, hbar, coeff], state the list of kets of a
\* tensor product; a product with a zero factor is zero and like products are
\* collected
TensorAdd(res) ==
    LET ketOf(x) == (CHOOSE e \in x : TRUE).state
        parts == UNION {{<<n, e>> : e \in res[n][n]} : n \in 1..Len(res)}
        st(pt) == [i \in 1..Len(res) |->
                      IF i = pt[1] THEN pt[2].state ELSE ketOf(res[pt[1]][i])]
        keys == {<<st(pt), pt[2].hbar>> : pt \in parts}
        coef(key) == RadSumSet({<<pt, pt[2].coeff>> :
                                   pt \in {q \in parts : <<st(q), q[2].hbar>> = key}})
    IN  {[state |-> key[1], hbar |-> key[2], coeff |-> coef(key)] :
            key \in {x \in keys : coef(x) # RadZero}}

\* ------------------------------------------------------------------------
\* Symbolic expressions: a sum of symbols with integer coefficients plus a
\* number (doubled like every quantum number), [s |-> name -> coefficient,
\* n |-> number]; two symbols of the same name are the same symbol
\* ------------------------------------------------------------------------
Sym(name) == [s |-> [x \in {name} |-> 1], n |-> 0]

Num(k) == [s |-> <<>>, n |-> k]

ExprAdd(a, b) ==
    LET c(x) == (IF x \in DOMAIN a.s THEN a.s[x] ELSE 0)
                    + (IF x \in DOMAIN b.s THEN b.s[x] ELSE 0)
    IN  [s |-> [x \in {y \in DOMAIN a.s \cup DOMAIN b.s : c(y) # 0} |-> c(x)],
         n |-> a.n + b.n]

ExprNeg(a) == [s |-> [x \in DOMAIN a.s |-> -a.s[x]], n |-> -a.n]

\* Add(*seq)
RECURSIVE ExprSum(_)
ExprSum(seq) ==
    IF seq = <<>> THEN Num(0) ELSE ExprAdd(Head(seq), ExprSum(Tail(seq)))

is_number(e) == DOMAIN e.s = {}

free_symbols(e) == DOMAIN e.s

\* ''.join(["%s" % n for n in ns])
RECURSIVE JoinIndices(_)
JoinIndices(ns) ==
    IF ns = <<>> THEN "" ELSE ToString(Head(ns)) \o JoinIndices(Tail(ns))

\* the symbolic branch of couple: the loop over coupling_list, then
\* Sum(coeff*state, *sum_terms) as [cg_terms, state, limits]
RECURSIVE SymbolicCoupleFrom(_, _, _, _, _, _)
SymbolicCoupleFrom(cl, sts, coupled_j, cg_terms, jcoupling, sum_terms) ==
    IF cl = <<>>
    THEN [cg_terms |-> cg_terms,
          state |-> [j |-> Last(cg_terms)[5], m |-> Last(cg_terms)[6],
                     jn |-> [i \in 1..Len(sts) |-> sts[i].j],
                     jcoupling |-> Front(jcoupling)],
          limits |-> sum_terms]
    ELSE LET j1_n == Head(cl)[1]
             j2_n == Head(cl)[2]
             j1 == coupled_j[min(j1_n)]
             j2 == coupled_j[min(j2_n)]
             j3 == IF Len(j1_n \o j2_n) = Len(sts) THEN "j"
                   ELSE "j" \o JoinIndices(j1_n \o j2_n)
             m1 == ExprSum([i \in 1..Len(j1_n) |-> sts[j1_n[i]].m])
             m2 == ExprSum([i \in 1..Len(j2_n) |-> sts[j2_n[i]].m])
             m3 == ExprAdd(m1, m2)
         IN  SymbolicCoupleFrom(Tail(cl), sts,
                 [coupled_j EXCEPT ![min(j1_n \o j2_n)] = Sym(j3)],
                 Append(cg_terms, <<j1, m1, j2, m2, Sym(j3), m3>>),
                 Append(jcoupling, <<min(j1_n), min(j2_n), Sym(j3)>>),
                 Append(sum_terms, <<j3, m3, ExprAdd(j1, j2)>>))

\* a symbolic branch that sums over the final j only
SymbolicCoupleFinalOnly(sts, cl) ==
    LET r == SymbolicCoupleFrom(cl, sts, [i \in 1..Len(sts) |-> sts[i].j],
                                <<>>, <<>>, <<>>)
    IN  [r EXCEPT !.limits = <<Last(r.limits)>>]

SymbolicCouple(sts, cl) ==
    SymbolicCoupleFrom(cl, sts, [i \in 1..Len(sts) |-> sts[i].j], <<>>, <<>>, <<>>)

\* symbols("m1:%d" % (len(jn)+1))
mvals(N) == [i \in 1..N |-> "m" \o ToString(i)]

\* the symbolic branch of uncouple for the state (j, m, jn) and the
\* coupling_list built from it, entries (n1, n2, j1, j2, j3)
SymbolicUncouple(j, m, jn, cl) ==
    LET mv == mvals(Len(jn))
        msum(ns) == ExprSum([i \in 1..Len(ns) |-> Sym(mv[ns[i]])])
        inner == [k \in 1..(Len(cl) - 1) |->
                     <<cl[k][3], msum(cl[k][1]), cl[k][4], msum(cl[k][2]),
                       cl[k][5], msum(cl[k][1] \o cl[k][2])>>]
        final == <<Last(cl)[3], msum(Last(cl)[1]), Last(cl)[4], msum(Last(cl)[2]),
                   j, m>>
    IN  [cg_terms |-> Append(inner, final),
         state |-> [i \in 1..Len(jn) |-> [j |-> jn[i], m |-> Sym(mv[i])]],
         limits |-> [i \in 1..Len(jn) |-> <<mv[i], ExprNeg(jn[i]), jn[i]>>]]

\* the summation symbol of the symbolic branch of SpinState._rewrite_basis:
\* 'mi', or 'mi1' when the state contains mi; the loop breaks after one step
RewriteSymbol(symbols) == IF "mi" \in symbols THEN "mi1" ELSE "mi"

\* the symbolic branch of _rewrite_basis into another basis (rotation angles
\* not all zero): Sum(Rotation.D(j, mi, m, *angles) * evect(j, mi), (mi, -j, j))
SymbolicRewrite(j, m) ==
    LET mi == RewriteSymbol(free_symbols(j) \cup free_symbols(m))
    IN  [cg_terms |-> <<>>,
         d |-> <<j, Sym(mi), m>>,
         state |-> <<[j |-> j, m |-> Sym(mi)]>>,
         limits |-> <<<<mi, ExprNeg(j), j>>>>]

\* ------------------------------------------------------------------------
\* Inputs
\* ------------------------------------------------------------------------
\* plain states with numeric labels, j >= 1/2, m = j, j-1, .., -j
SpinKets ==
    {k \in [j : 1..MaxTwoJ, m : -MaxTwoJ..MaxTwoJ] :
        Abs(k.m) <= k.j /\ (k.j - k.m) % 2 = 0}

\* the dimension of the product space of a list of (doubled) j values
RECURSIVE Dim(_)
Dim(js) == IF js = <<>> THEN 1 ELSE (Head(js) + 1) * Dim(Tail(js))

JnOf(tp) == [i \in 1..Len(tp) |-> tp[i].j]

\* tensor products of 2..MaxN plain states spanning at most MaxDim dimensions
TensorProducts ==
    UNION {{tp \in [1..N -> SpinKets] : Dim(JnOf(tp)) <= MaxDim} : N \in 2..MaxN}

\* constructor arguments in quarters: from below zero to above MaxTwoJ + 1/2
KetArgs == (-2 * MaxTwoJ - 3)..(2 * MaxTwoJ + 3)

Pairs(N) == (1..N) \X (1..N)

\* explicit jcoupling_list arguments: every list of the required length, and
\* one list of each wrong length up to N - 1 (a wrong length is rejected
\* before the pairs are read)
CouplingLists(N) ==
    [1..(N - 2) -> Pairs(N)] \cup
    {[i \in 1..L |-> <<1, 2>>] : L \in (0..(N - 1)) \ {N - 2}}

\* the (doubled) j lists of the tensor products
JnLists == {JnOf(tp) : tp \in TensorProducts}

\* states (j, m) offered to uncouple for a given jn: every j up to one unit
\* above Add(*jn) and every m of that ladder, with Add(*jn) - m an integer
UncoupleKets(jn) ==
    {k \in [j : 0..(SumSeq(jn) + 2), m : -(SumSeq(jn) + 2)..(SumSeq(jn) + 2)] :
        /\ Abs(k.m) <= k.j
        /\ (k.j - k.m) % 2 = 0
        /\ (SumSeq(jn) - k.m) % 2 = 0}

Triangle(j1, j2, j3) ==
    /\ j3 <= j1 + j2
    /\ j3 >= Abs(j1 - j2)
    /\ (j1 + j2 - j3) % 2 = 0

\* jcoupling arguments (n1, n2, j3) for a given jn: the pairs form a list that
\* couple accepts and every intermediate j3 is one the two spaces can couple to
JCouplings(jn) ==
    LET N == Len(jn)
        all == [1..(N - 2) -> Pairs(N) \X (0..SumSeq(jn))]
        pairs(jc) == [i \in 1..Len(jc) |-> jc[i][1]]
        recs(jc) == [i \in 1..Len(jc) |-> <<jc[i][1][1], jc[i][1][2], jc[i][2]>>]
        wellformed(jc) ==
            /\ CoupleValidate(N, pairs(jc)) = "ok"
            /\ LET cl == BuildCouplingList(N, pairs(jc))
               IN  \A k \in 1..Len(cl) : cl[k][1] # <<>> /\ cl[k][2] # <<>>
            /\ LET b == _build_coupled(recs(jc), N)
                   ucl == UncoupleListFrom(b[2], b[1], jn, <<>>)[1]
               IN  \A k \in 1..Len(ucl) : Triangle(ucl[k][3], ucl[k][4], ucl[k][5])
    IN  {recs(jc) : jc \in {x \in all : wellformed(x)}}

\* (j, m) offered to the constructor of a coupled state, doubled: some with
\* j < 0 and some with |m| > j
CoupledJM == [j : (-1)..MaxTwoJ, m : (-1)..(MaxTwoJ + 1)]

\* jn offered to the constructor of a coupled state
CoupledJn == {jn \in JnLists : \A i \in 1..Len(jn) : jn[i] = 1}

\* explicit jcoupling arguments offered to the constructor for N spaces:
\* every list of N-2 records (n1, n2, j3), and one list of each shorter length
JCouplingArgs(N) ==
    LET recs == Pairs(N) \X (0..MaxTwoJ)
        rec(x) == <<x[1][1], x[1][2], x[2]>>
    IN  {[i \in 1..(N - 2) |-> rec(f[i])] : f \in [1..(N - 2) -> recs]}
            \cup {[i \in 1..k |-> <<1, 2, 0>>] : k \in 0..(N - 3)}
            \cup {[i \in 1..(N - 1) |-> <<1, 2, 0>>]}

\* plain states with symbolic or numeric labels offered to symbolic couple
SymKets ==
    {[j |-> Sym("j1"), m |-> Sym("m1")], [j |-> Sym("j2"), m |-> Sym("m2")],
     [j |-> Sym("j"), m |-> Sym("m")], [j |-> Num(1), m |-> Num(1)]}

\* tensor products of 2..MaxN of them, not all numeric
SymTensorProducts ==
    UNION {{t \in [1..N -> SymKets] :
               \E i \in 1..N : ~is_number(t[i].j) \/ ~is_number(t[i].m)} :
           N \in 2..MaxN}

\* explicit schemes offered to symbolic couple: every pair of two different
\* spaces for three factors
SymCouplingLists(N) ==
    IF N = 3 THEN {<<pr>> : pr \in {x \in Pairs(3) : x[1] # x[2]}} ELSE {}

\* (j, m) offered to symbolic uncouple and to the symbolic rewrite
SymJM ==
    {[j |-> Sym("j"), m |-> Sym("m")], [j |-> Num(2), m |-> Sym("m")],
     [j |-> Sym("j"), m |-> Num(0)], [j |-> Num(2), m |-> Num(0)],
     [j |-> Sym("mi"), m |-> Sym("m")], [j |-> Sym("mi1"), m |-> Sym("mi")]}

\* jn offered to symbolic uncouple: (j1, .., jN), (1/2, .., 1/2), and
\* (m1, j2, .., jN)
SymJn ==
    UNION {{[i \in 1..N |-> Sym("j" \o ToString(i))],
            [i \in 1..N |-> Num(1)],
            [i \in 1..N |-> IF i = 1 THEN Sym("m1") ELSE Sym("j" \o ToString(i))]} :
           N \in 2..MaxN}

\* values of the symbol of a finite space
Values == 1..MaxTwoJ

\* densities over Values with probabilities k/MaxN that sum to 1
Densities == {d \in [Values -> 0..MaxN] : SumProb(d, Values) = MaxN}

\* expressions of the symbol
Exprs == {"X", "X**2 - 3*X"}

\* conditions X > k and Eq(X, k); foreign marks X > z and Eq(X, z) with a
\* symbol z that is not the space's
Conditions ==
    {c \in [rel : {">", "=="}, k : 0..MaxTwoJ, foreign : BOOLEAN] :
        c.foreign => c.k = 0}

\* uniform draws x in [0, 1), in units of 1/(2*MaxN)
Draws == 0..(2 * MaxN - 1)

\* arguments of WignerD: numeric j up to (MaxTwoJ+1)/2 with m and mp among
\* j, j-1, .., -j, or a symbol j; alpha and gamma multiples of pi/2, beta 0 or
\* pi/2 (all in units of pi/2)
WignerArgs ==
    {w \in [j : 0..(MaxTwoJ + 1), m : (-(MaxTwoJ + 1))..(MaxTwoJ + 1),
            mp : (-(MaxTwoJ + 1))..(MaxTwoJ + 1), alpha : 0..3, beta : 0..1,
            gamma : 0..3, numeric : BOOLEAN] :
        IF w.numeric
        THEN /\ Abs(w.m) <= w.j /\ (w.j - w.m) % 2 = 0
             /\ Abs(w.mp) <= w.j /\ (w.j - w.mp) % 2 = 0
        ELSE w.j = 0 /\ w.m = 0 /\ w.mp = 0}

\* (n, diff, config_num, m) the decoding can be entered with: n loops, outer
\* value diff, config_num in range(tot), and m the value of the name diff when
\* the decoding starts, which the inner for loop of couple may have lowered;
\* diff = -1 is uncouple of a state with m above Add(*jn)
DecodeEntries ==
    {e \in [n : 1..MaxN, diff : (-1)..(MaxTwoJ + 1),
            config_num : 0..(NumConfigs(MaxN, MaxTwoJ + 1) - 1),
            m : (-1)..(MaxTwoJ + 1)] :
        /\ e.config_num < NumConfigs(e.n, e.diff)
        /\ e.m <= e.diff}

VARIABLES pc, states, jcoupling_list, coupling_list, diff_max, diff_iter,
          diff, tot, config_num, diff_list, result, ret, err, state, back,
          args, ket, op, out, cargs, cket, kcls, tprod, tresult, tret,
          sin, sout, dw, comm, wd, fp

vars == <<pc, states, jcoupling_list, coupling_list, diff_max, diff_iter,
          diff, tot, config_num, diff_list, result, ret, err, state, back,
          args, ket, op, out, cargs, cket, kcls, tprod, tresult, tret,
          sin, sout, dw, comm, wd, fp>>

tpVars == <<tprod, tresult, tret>>

symVars == <<sin, sout>>

extVars == <<dw, comm, wd, fp>>

opVars == <<args, ket, op, out, cargs, cket, kcls, tpVars, symVars, extVars>>

engineVars == <<states, jcoupling_list, coupling_list, diff_max, diff_iter,
                diff, tot, config_num, diff_list, result, ret, state, back>>

\* everything but pc, err and the variables of extVars
baseVars == <<args, ket, op, out, cargs, cket, kcls, tpVars, symVars, engineVars>>

NoState == [j |-> 0, m |-> 0, jn |-> <<>>, coupled_jn |-> <<>>, coupled_n |-> <<>>]

Init ==
    /\ pc = "idle"
    /\ states = <<>>
    /\ jcoupling_list = <<>>
    /\ coupling_list = <<>>
    /\ diff_max = <<>>
    /\ diff_iter = 0
    /\ diff = 0
    /\ tot = 0
    /\ config_num = 0
    /\ diff_list = <<>>
    /\ result = <<>>
    /\ ret = {}
    /\ err = "none"
    /\ state = NoState
    /\ back = {}
    /\ args = <<0, 0>>
    /\ ket = [j |-> 0, m |-> 0]
    /\ op = "none"
    /\ out = {}
    /\ cargs = [j |-> 0, m |-> 0, jn |-> <<>>, explicit |-> FALSE, jcoupling |-> <<>>]
    /\ cket = NoState
    /\ kcls = "none"
    /\ tprod = <<>>
    /\ tresult = <<>>
    /\ tret = {}
    /\ sin = [fn |-> "none"]
    /\ sout = [limits |-> <<>>]
    /\ dw = [n |-> 0, config_num |-> 0, start |-> 0, k |-> 0, prev |-> 0, m |-> 0,
             config_offset |-> 0, diff_list |-> <<>>]
    /\ comm = [a |-> "none"]
    /\ wd = [fn |-> "none"]
    /\ fp = [fn |-> "none"]

\* couple(tp, jcoupling_list) up to the first iteration of the outer loop;
\* explicit = FALSE is jcoupling_list=None
CoupleCall(tp, explicit, jcl) ==
    /\ pc = "idle"
    /\ LET N == Len(tp)
           list == IF explicit THEN jcl ELSE DefaultCouplingList(N)
           v == CoupleValidate(N, list)
           cl == BuildCouplingList(N, list)
       IN  /\ states' = tp
           /\ jcoupling_list' = list
           /\ IF v # "ok"
              THEN /\ pc' = "error"
                   /\ err' = v
                   /\ UNCHANGED <<coupling_list, diff_max, diff_list>>
              ELSE /\ pc' = "couple"
                   /\ err' = "none"
                   /\ coupling_list' = cl
                   /\ diff_max' = [k \in 1..Len(cl) |-> DiffMaxOf(tp, cl[k])]
                   /\ diff_list' = [k \in 1..Len(cl) |-> 0]
    /\ UNCHANGED <<diff_iter, diff, tot, config_num, result, ret, state, back, opVars>>

CoupleCallAny ==
    /\ pc = "idle"
    /\ \E tp \in TensorProducts :
           \/ CoupleCall(tp, FALSE, <<>>)
           \/ \E jcl \in CouplingLists(Len(tp)) : CoupleCall(tp, TRUE, jcl)

\* for diff in range(diff_max[-1]+1): the next value of the range, and
\* tot for it; when the range is exhausted, return Add(*result)
CoupleOuter ==
    /\ pc = "couple"
    /\ config_num = tot
    /\ IF diff_iter <= Last(diff_max)
       THEN /\ diff' = diff_iter
            /\ diff_iter' = diff_iter + 1
            /\ tot' = NumConfigs(Len(coupling_list), diff_iter)
            /\ config_num' = 0
            /\ UNCHANGED <<pc, ret>>
       ELSE /\ pc' = "couple_done"
            /\ ret' = AddTerms(result)
            /\ UNCHANGED <<diff, diff_iter, tot, config_num>>
    /\ UNCHANGED <<states, jcoupling_list, coupling_list, diff_max, diff_list,
                   result, err, state, back, opVars>>

\* one iteration of "for config_num in range(tot)" that ends in continue
CoupleSkip ==
    /\ pc = "couple"
    /\ config_num < tot
    /\ LET dl == DecodeConfig(config_num, Len(coupling_list), diff)
       IN  /\ NonPhysical(dl, diff_max)
           /\ diff_list' = dl
    /\ config_num' = config_num + 1
    /\ UNCHANGED <<pc, states, jcoupling_list, coupling_list, diff_max,
                   diff_iter, diff, tot, result, ret, err, state, back, opVars>>

\* one iteration of "for config_num in range(tot)" that appends a term.  The
\* loop "for coupling, diff in zip(coupling_list, diff_list)" rebinds diff,
\* which is left at the last element of diff_list.
CoupleAppend ==
    /\ pc = "couple"
    /\ config_num < tot
    /\ LET dl == DecodeConfig(config_num, Len(coupling_list), diff)
       IN  /\ ~NonPhysical(dl, diff_max)
           /\ diff_list' = dl
           /\ IF \E k \in 1..Len(coupling_list) :
                    coupling_list[k][1] = <<>> \/ coupling_list[k][2] = <<>>
              THEN \* min() of an empty list
                   /\ pc' = "error"
                   /\ err' = "ValueError"
                   /\ UNCHANGED <<diff, result>>
              ELSE /\ result' = Append(result, CoupleTerm(states, coupling_list, dl))
                   /\ diff' = Last(dl)
                   /\ UNCHANGED <<pc, err>>
    /\ config_num' = config_num + 1
    /\ UNCHANGED <<states, jcoupling_list, coupling_list, diff_max, diff_iter,
                   tot, ret, state, back, opVars>>

\* uncouple applied to every coupled state of the returned combination and
\* summed with the coupling coefficients
RoundTrip ==
    /\ pc = "couple_done"
    /\ back' = UncoupleSum(ret)
    /\ pc' = "roundtrip_done"
    /\ UNCHANGED <<states, jcoupling_list, coupling_list, diff_max, diff_iter,
                   diff, tot, config_num, diff_list, result, ret, err, state, opVars>>

\* uncouple(state) of a coupled state, or uncouple(state, jn, jcoupling_list)
\* of a plain state, up to the loop over config_num
UncoupleCall(k, jn, jc) ==
    /\ pc = "idle"
    /\ LET st == CoupledSpinState(k.j, k.m, jn, jc)
           cl == UncoupleCouplingList(st.j, st.jn, st.coupled_n, st.coupled_jn)
           d == UncoupleDiff(jn, k.m)
       IN  /\ state' = st
           /\ coupling_list' = cl
           /\ diff_list' = [i \in 1..Len(jn) |-> 0]
           /\ diff_max' = UncoupleDiffMax(jn)
           /\ diff' = d
           /\ tot' = NumConfigs(Len(jn), d)
    /\ config_num' = 0
    /\ pc' = "uncouple"
    /\ UNCHANGED <<states, jcoupling_list, diff_iter, result, ret, err, back, opVars>>

UncoupleCallAny ==
    /\ pc = "idle"
    /\ \E jn \in JnLists : \E k \in UncoupleKets(jn) : \E jc \in JCouplings(jn) :
           UncoupleCall(k, jn, jc)

\* one iteration of "for config_num in range(tot)" that ends in continue
UncoupleSkip ==
    /\ pc = "uncouple"
    /\ config_num < tot
    /\ LET dl == DecodeConfig(config_num, Len(state.jn), diff)
       IN  /\ NonPhysical(dl, diff_max)
           /\ diff_list' = dl
    /\ config_num' = config_num + 1
    /\ UNCHANGED <<pc, states, jcoupling_list, coupling_list, diff_max,
                   diff_iter, diff, tot, result, ret, err, state, back, opVars>>

\* one iteration of "for config_num in range(tot)" that appends a term
UncoupleAppend ==
    /\ pc = "uncouple"
    /\ config_num < tot
    /\ LET dl == DecodeConfig(config_num, Len(state.jn), diff)
       IN  /\ ~NonPhysical(dl, diff_max)
           /\ diff_list' = dl
           /\ result' = Append(result, UncoupleTerm(coupling_list, state.jn, dl))
    /\ config_num' = config_num + 1
    /\ UNCHANGED <<pc, states, jcoupling_list, coupling_list, diff_max,
                   diff_iter, diff, tot, ret, err, state, back, opVars>>

\* return Add(*result).doit()
UncoupleReturn ==
    /\ pc = "uncouple"
    /\ config_num >= tot
    /\ ret' = AddTerms(result)
    /\ pc' = "uncouple_done"
    /\ UNCHANGED <<states, jcoupling_list, coupling_list, diff_max, diff_iter,
                   diff, tot, config_num, diff_list, result, err, state, back, opVars>>

\* JxKet(j, m), JyKet(j, m) or JzKet(j, m) called with numeric arguments:
\* the three classes share SpinState.__new__; kcls is the basis of the class
NewKet(c, j4, m4) ==
    /\ pc = "idle"
    /\ args' = <<j4, m4>>
    /\ kcls' = c
    /\ IF SpinStateValidate(j4, m4) = "ok"
       THEN /\ ket' = SpinState(j4, m4)
            /\ pc' = "ket"
            /\ err' = "none"
       ELSE /\ pc' = "error"
            /\ err' = SpinStateValidate(j4, m4)
            /\ UNCHANGED ket
    /\ UNCHANGED <<op, out, cargs, cket, tpVars, symVars, engineVars, extVars>>

NewKetAny ==
    /\ pc = "idle"
    /\ \E c \in {"Jx", "Jy", "Jz"} : \E j4 \in KetArgs : \E m4 \in KetArgs :
           NewKet(c, j4, m4)

\* operator._apply_operator_<class of the ket>(ket)
Apply(name, res) ==
    /\ pc = "ket"
    /\ op' = name
    /\ IF res.raised # "none"
       THEN /\ pc' = "error"
            /\ err' = res.raised
            /\ UNCHANGED out
       ELSE /\ pc' = "applied"
            /\ out' = res.value
            /\ UNCHANGED err
    /\ UNCHANGED <<args, ket, cargs, cket, kcls, tpVars, symVars, engineVars, extVars>>

ApplyJplus == kcls = "Jz" /\ Apply("Jplus", JplusOnJzKet(ket))

ApplyJminus == kcls = "Jz" /\ Apply("Jminus", JminusOnJzKet(ket))

ApplyJ2 == kcls = "Jz" /\ Apply("J2", J2OnJzKet(ket))

\* Jz is applied to the states m = j, j-1, .., -j only: the Wigner-D evaluation
\* behind the rewrite takes factorials of j + m and j - m
ApplyJz ==
    /\ kcls = "Jz"
    /\ (ket.j - ket.m) % 2 = 0
    /\ Apply("Jz", JzOnJzKet(ket))

\* SpinOpBase._apply_operator_JxKet and _apply_operator_JyKet, which no
\* operator class overrides: JxOp on a Jx ket, JyOp on a Jy ket, and J2Op on
\* either.  The rewrites between two different bases (Wigner D-function at
\* angles other than 0) are not among the applications offered.
ApplyBase ==
    /\ kcls \in {"Jx", "Jy"}
    /\ (ket.j - ket.m) % 2 = 0
    /\ \E name \in {kcls, "J2"} : Apply(name, _apply_op(name, ket))

\* JzKetCoupled(j, m, jn) or JzKetCoupled(j, m, jn, jcoupling):
\* CoupledSpinState.__new__, which calls State.__new__ and not
\* SpinState.__new__
NewCoupled(k, jn, explicit, jc) ==
    /\ pc = "idle"
    /\ cargs' = [j |-> k.j, m |-> k.m, jn |-> jn, explicit |-> explicit,
                 jcoupling |-> jc]
    /\ LET jcoupling == IF explicit THEN jc ELSE DefaultJCoupling(jn)
           v == CoupledSpinStateValidate(jn, jcoupling)
       IN  IF v = "ok"
           THEN /\ cket' = CoupledSpinState(k.j, k.m, jn, jcoupling)
                /\ pc' = "coupled"
                /\ err' = "none"
           ELSE /\ pc' = "error"
                /\ err' = v
                /\ UNCHANGED cket
    /\ UNCHANGED <<args, ket, op, out, kcls, tpVars, symVars, engineVars, extVars>>

NewCoupledAny ==
    /\ pc = "idle"
    /\ \E k \in CoupledJM : \E jn \in CoupledJn :
           \/ NewCoupled(k, jn, FALSE, <<>>)
           \/ \E jc \in JCouplingArgs(Len(jn)) : NewCoupled(k, jn, TRUE, jc)

\* operator._apply_operator_JzKetCoupled(cket) for JplusOp, JminusOp, JxOp
\* and JyOp, on a ket constructed with the default coupling scheme (the
\* scheme is not read by these methods)
ApplyCoupled(name) ==
    /\ pc = "coupled"
    /\ ~cargs.explicit
    /\ op' = name
    /\ LET res == ApplyToCoupled(name, cket)
       IN  IF res.raised # "none"
           THEN /\ pc' = "error"
                /\ err' = res.raised
                /\ UNCHANGED out
           ELSE /\ pc' = "applied"
                /\ out' = res.value
                /\ UNCHANGED err
    /\ UNCHANGED <<args, ket, cargs, cket, kcls, tpVars, symVars, engineVars, extVars>>

ApplyCoupledAny ==
    /\ pc = "coupled"
    /\ \E name \in {"Jplus", "Jminus", "Jx", "Jy"} : ApplyCoupled(name)

\* a(name)._eval_commutator_<b>(b(name)): the operator of the result is
\* built with self.name
EvalCommutator(a, b, name) ==
    /\ pc = "idle"
    /\ comm' = [a |-> a, b |-> b, name |-> name, value |-> _eval_commutator(a, b),
                rname |-> IF _eval_commutator(a, b).op \in {"Zero", "None"}
                          THEN "" ELSE name]
    /\ pc' = "commutator"
    /\ UNCHANGED <<err, dw, wd, fp, baseVars>>

EvalCommutatorAny ==
    /\ pc = "idle"
    /\ \E a \in OpClasses : \E b \in OpClasses : \E name \in OpNames :
           EvalCommutator(a, b, name)

\* WignerD(j, m, mp, alpha, beta, gamma).doit(), which evaluates through
\* WignerD.__new__ with evaluate=True
WignerDoit ==
    /\ pc = "idle"
    /\ \E w \in WignerArgs :
           LET res == _eval_wignerd(w)
           IN  /\ wd' = [fn |-> "doit", w |-> w, ks |-> WignerKs(w.j, w.m, w.mp),
                         raised |-> res.raised,
                         value |-> IF res.raised = "none" THEN res.value ELSE CZero]
               /\ IF res.raised = "none"
                  THEN pc' = "wignerd" /\ UNCHANGED err
                  ELSE pc' = "error" /\ err' = res.raised
    /\ UNCHANGED <<dw, comm, fp, baseVars>>

\* FinitePSpace.__new__(cls, domain, density) for a single-symbol space
NewSpace ==
    /\ pc = "idle"
    /\ \E d \in Densities :
           fp' = [fn |-> "new", density |-> d, cdf_cache |-> <<>>,
                  sorted_cache |-> <<>>, key |-> <<>>, hit |-> FALSE,
                  enumerated |-> FALSE, raised |-> "none", ret |-> <<>>]
    /\ pc' = "space"
    /\ UNCHANGED <<err, dw, comm, wd, baseVars>>

\* the record of a finished call: hit says that the same method was called
\* with equal arguments before (for compute_density, which keeps no record
\* of its calls: by the call just before), enumerated that the call iterated
\* over the domain
Called(f, fn, key, hit, enumerated, res) ==
    [f EXCEPT !.fn = fn, !.key = key, !.hit = hit, !.enumerated = enumerated,
              !.raised = res.raised, !.ret = res.value]

\* space.compute_density(expr); the method has no cache
ComputeDensityCall ==
    /\ pc = "space"
    /\ \E expr \in Exprs :
           fp' = Called(fp, "compute_density", <<expr>>,
                        fp.fn = "compute_density" /\ fp.key = <<expr>>, TRUE,
                        Returns(compute_density(fp.density, expr)))
    /\ UNCHANGED <<pc, err, dw, comm, wd, baseVars>>

\* space.compute_cdf(expr)
ComputeCdfCall ==
    /\ pc = "space"
    /\ \E expr \in Exprs :
       \E items \in SortedOrders(CdfOf(compute_density(fp.density, expr))) :
           LET c == CachedCdf(fp, expr, items)
           IN  fp' = Called(c.f, "compute_cdf", <<expr>>,
                            expr \in DOMAIN fp.cdf_cache, c.enumerated,
                            Returns(c.ret.dict))
    /\ UNCHANGED <<pc, err, dw, comm, wd, baseVars>>

\* space.sorted_cdf(expr, python_float)
SortedCdfCall ==
    /\ pc = "space"
    /\ \E expr \in Exprs : \E python_float \in BOOLEAN :
       \E items \in SortedOrders(CdfOf(compute_density(fp.density, expr))) :
           LET c == CachedSorted(fp, expr, python_float, items)
           IN  fp' = Called(c.f, "sorted_cdf", <<expr, python_float>>,
                            <<expr, python_float>> \in DOMAIN fp.sorted_cache,
                            c.enumerated, Returns(c.ret))
    /\ UNCHANGED <<pc, err, dw, comm, wd, baseVars>>

\* space.sample() with the draw x: expr = Tuple(*self.values);
\* cdf = self.sorted_cdf(expr, python_float=True); the scan
SampleCall ==
    /\ pc = "space"
    /\ \E x \in Draws :
       \E items \in SortedOrders(CdfOf(compute_density(fp.density, "X"))) :
           LET c == CachedSorted(fp, "X", TRUE, items)
           IN  fp' = Called(c.f, "sample", <<x>>, FALSE, c.enumerated,
                            SampleScan(c.ret, x))
    /\ UNCHANGED <<pc, err, dw, comm, wd, baseVars>>

\* space.where(condition).  where, P and conditional_space neither read nor
\* write the caches; they are offered on a space that has not been asked
\* anything yet.
WhereCall ==
    /\ pc = "space"
    /\ fp.fn = "new"
    /\ \E cond \in Conditions :
           fp' = Called(fp, "where", <<cond>>, FALSE, FALSE, where(fp.density, cond))
    /\ UNCHANGED <<pc, err, dw, comm, wd, baseVars>>

\* space.P(condition)
PCall ==
    /\ pc = "space"
    /\ fp.fn = "new"
    /\ \E cond \in Conditions :
           fp' = Called(fp, "P", <<cond>>, FALSE, FALSE, P(fp.density, cond))
    /\ UNCHANGED <<pc, err, dw, comm, wd, baseVars>>

\* space.conditional_space(condition)
ConditionalSpaceCall ==
    /\ pc = "space"
    /\ fp.fn = "new"
    /\ \E cond \in Conditions :
           fp' = Called(fp, "conditional_space", <<cond>>, FALSE, FALSE,
                        conditional_space(fp.density, cond))
    /\ UNCHANGED <<pc, err, dw, comm, wd, baseVars>>

\* operator._apply_operator_TensorProduct(TensorProduct(*tpargs))
ApplyTensor(name, tpargs) ==
    /\ pc = "idle"
    /\ tprod' = tpargs
    /\ op' = name
    /\ LET res == TensorResult(name, tpargs)
       IN  IF res.raised # "none"
           THEN /\ pc' = "error"
                /\ err' = res.raised
                /\ UNCHANGED <<tresult, tret>>
           ELSE /\ pc' = "tensor_applied"
                /\ tresult' = res.value
                /\ tret' = TensorAdd(res.value)
                /\ UNCHANGED err
    /\ UNCHANGED <<args, ket, out, cargs, cket, kcls, symVars, engineVars, extVars>>

ApplyTensorAny ==
    /\ pc = "idle"
    /\ \E name \in {"Jplus", "Jminus", "Jz", "J2"} : \E t \in TensorProducts :
           ApplyTensor(name, t)

\* couple(TensorProduct(*sts), jcoupling_list) with a symbolic j or m in some
\* factor
SymCoupleCall(sts, explicit, jcl) ==
    /\ pc = "idle"
    /\ LET N == Len(sts)
           list == IF explicit THEN jcl ELSE DefaultCouplingList(N)
       IN  /\ CoupleValidate(N, list) = "ok"
           /\ sin' = [fn |-> "couple", states |-> sts, list |-> list,
                      symbols |-> UNION {free_symbols(sts[i].j) \cup
                                         free_symbols(sts[i].m) : i \in 1..N}]
           /\ sout' = SymbolicCouple(sts, BuildCouplingList(N, list))
    /\ pc' = "sym_couple"
    /\ UNCHANGED <<err, args, ket, op, out, cargs, cket, kcls, tpVars, engineVars, extVars>>

SymCoupleAny ==
    /\ pc = "idle"
    /\ \E sts \in SymTensorProducts :
           \/ SymCoupleCall(sts, FALSE, <<>>)
           \/ \E jcl \in SymCouplingLists(Len(sts)) : SymCoupleCall(sts, TRUE, jcl)

\* uncouple(JzKetCoupled(j, m, jn)) with a symbol among j, m and jn.  The
\* branch is chosen by j and m alone; the numerical branch takes
\* range(n, n+p) of p = Add(*jn) - m, which raises TypeError when p is not a
\* number.
SymUncoupleCall(k, jn) ==
    /\ pc = "idle"
    /\ \/ ~is_number(k.j)
       \/ ~is_number(k.m)
       \/ \E i \in 1..Len(jn) : ~is_number(jn[i])
    /\ LET jc == [i \in 1..(Len(jn) - 2) |->
                     <<1, i + 1, ExprSum(SubSeq(jn, 1, i + 1))>>]
           st == CoupledSpinState(k.j, k.m, jn, jc)
           cl == UncoupleCouplingList(st.j, st.jn, st.coupled_n, st.coupled_jn)
       IN  /\ sin' = [fn |-> "uncouple", j |-> k.j, m |-> k.m, jn |-> jn,
                      symbols |-> free_symbols(k.j) \cup free_symbols(k.m) \cup
                                  UNION {free_symbols(jn[i]) : i \in 1..Len(jn)}]
           /\ IF is_number(k.j) /\ is_number(k.m)
              THEN /\ pc' = "error"
                   /\ err' = "TypeError"
                   /\ UNCHANGED sout
              ELSE /\ pc' = "sym_uncouple"
                   /\ sout' = SymbolicUncouple(k.j, k.m, jn, cl)
                   /\ UNCHANGED err
    /\ UNCHANGED <<args, ket, op, out, cargs, cket, kcls, tpVars, engineVars, extVars>>

SymUncoupleAny ==
    /\ pc = "idle"
    /\ \E k \in SymJM : \E jn \in SymJn : SymUncoupleCall(k, jn)

\* JzKet(j, m).rewrite('Jx') with a symbolic j
SymRewriteCall(k) ==
    /\ pc = "idle"
    /\ ~is_number(k.j)
    /\ sin' = [fn |-> "rewrite", j |-> k.j, m |-> k.m,
               symbols |-> free_symbols(k.j) \cup free_symbols(k.m)]
    /\ sout' = SymbolicRewrite(k.j, k.m)
    /\ pc' = "sym_rewrite"
    /\ UNCHANGED <<err, args, ket, op, out, cargs, cket, kcls, tpVars, engineVars, extVars>>

SymRewriteAny ==
    /\ pc = "idle"
    /\ \E k \in SymJM : SymRewriteCall(k)

\* the decoding of one config_num, statement by statement: m = diff;
\* config_offset = 0; for k in range(n)
DecodeEnter ==
    /\ pc = "idle"
    /\ \E e \in DecodeEntries :
           dw' = [n |-> e.n, config_num |-> e.config_num, start |-> e.m, k |-> 0,
                  prev |-> e.m, m |-> e.m, config_offset |-> 0, diff_list |-> <<>>]
    /\ pc' = "decode"
    /\ UNCHANGED <<err, comm, wd, fp, baseVars>>

\* one evaluation of the while condition that is true, and the loop body
DecodeWhileStep ==
    /\ pc = "decode"
    /\ dw.k < dw.n
    /\ dw.config_num >= NumConfigs(dw.n - dw.k - 1, dw.m) + dw.config_offset
    /\ LET b == WhileBody(dw.n - dw.k - 1, dw.m, dw.config_offset)
       IN  dw' = [dw EXCEPT !.m = b.m, !.config_offset = b.config_offset]
    /\ UNCHANGED <<pc, err, comm, wd, fp, baseVars>>

\* the while condition is false: diff_list[k] = prev - m, next k (prev = m)
DecodeAssign ==
    /\ pc = "decode"
    /\ dw.k < dw.n
    /\ dw.config_num < NumConfigs(dw.n - dw.k - 1, dw.m) + dw.config_offset
    /\ dw' = [dw EXCEPT !.diff_list = Append(dw.diff_list, dw.prev - dw.m),
                        !.k = dw.k + 1, !.prev = dw.m]
    /\ UNCHANGED <<pc, err, comm, wd, fp, baseVars>>

\* range(n) is exhausted
DecodeExit ==
    /\ pc = "decode"
    /\ dw.k = dw.n
    /\ pc' = "decoded"
    /\ UNCHANGED <<err, dw, comm, wd, fp, baseVars>>

NextCouple ==
    \/ CoupleCallAny
    \/ CoupleOuter
    \/ CoupleSkip
    \/ CoupleAppend
    \/ RoundTrip

NextUncouple ==
    \/ UncoupleCallAny
    \/ UncoupleSkip
    \/ UncoupleAppend
    \/ UncoupleReturn

NextCoupledState ==
    \/ NewCoupledAny
    \/ ApplyCoupledAny

NextTensor == ApplyTensorAny

NextDecode ==
    \/ DecodeEnter
    \/ DecodeWhileStep
    \/ DecodeAssign
    \/ DecodeExit

NextWigner == WignerDoit

NextFinite ==
    \/ NewSpace
    \/ ComputeDensityCall
    \/ ComputeCdfCall
    \/ SortedCdfCall
    \/ SampleCall
    \/ WhereCall
    \/ PCall
    \/ ConditionalSpaceCall

NextSymbolic ==
    \/ SymCoupleAny
    \/ SymUncoupleAny
    \/ SymRewriteAny

NextOps ==
    \/ NewKetAny
    \/ ApplyJplus
    \/ ApplyJminus
    \/ ApplyJ2
    \/ ApplyJz
    \/ ApplyBase
    \/ EvalCommutatorAny

Next ==
    \/ NextCouple
    \/ NextUncouple
    \/ NextOps
    \/ NextCoupledState
    \/ NextTensor
    \/ NextSymbolic
    \/ NextDecode
    \/ NextWigner
    \/ NextFinite

Spec == Init /\ [][Next]_vars

SpecCouple == Init /\ [][NextCouple]_vars

SpecUncouple == Init /\ [][NextUncouple]_vars

SpecOps == Init /\ [][NextOps]_vars

SpecCoupledState == Init /\ [][NextCoupledState]_vars

SpecTensor == Init /\ [][NextTensor]_vars

SpecSymbolic == Init /\ [][NextSymbolic]_vars

SpecWigner == Init /\ [][NextWigner]_vars

SpecFinite == Init /\ [][NextFinite]_vars

\* couple and the constructor of coupled states, the two places that build a
\* default coupling scheme
SpecDefaultScheme == Init /\ [][NextCouple \/ NextCoupledState]_vars

\* the statements of the decoding are executed one after the other
SpecDecode == Init /\ [][NextDecode]_vars /\ WF_vars(NextDecode)

\* ------------------------------------------------------------------------
\* Properties
\* ------------------------------------------------------------------------
InCouple == pc \in {"couple", "couple_done", "roundtrip_done"}

\* the product couple was called with, as a linear combination
InputProduct == {[state |-> states, coeff |-> RadOne]}

\* C1: every term couple appends is (product of one CG coefficient per merge,
\* N-1 in all) times a coupled state with m the sum of the m_i, jn the j_i in
\* order, and N-2 coupling records (min of space A, min of space B, j3); each
\* merge has j3 = j1 + j2 - d_k, so the final j is sum(j_i) - sum(d_k).
C1_CoupleTermStructure ==
    InCouple =>
        \A i \in 1..Len(result) :
            LET t == result[i]
                N == Len(states)
                jn == JnOf(states)
            IN  /\ Len(t.cg_terms) = N - 1
                /\ Len(t.diff_list) = N - 1
                /\ t.coeff = CGProduct(t.cg_terms)
                /\ t.state.m = SumM(states, [n \in 1..N |-> n])
                /\ t.state.jn = jn
                /\ Len(t.state.coupled_jn) = N - 2
                /\ Len(t.state.coupled_n) = N - 2
                /\ \A k \in 1..(N - 1) :
                       /\ t.cg_terms[k][5] =
                              t.cg_terms[k][1] + t.cg_terms[k][3] - 2 * t.diff_list[k]
                       /\ t.cg_terms[k][6] = t.cg_terms[k][2] + t.cg_terms[k][4]
                       /\ t.jcoupling[k] = <<min(coupling_list[k][1]),
                                             min(coupling_list[k][2]),
                                             t.cg_terms[k][5]>>
                /\ \A k \in 1..(N - 2) :
                       /\ t.state.coupled_jn[k] = t.jcoupling[k][3]
                       /\ t.state.coupled_n[k] =
                              <<coupling_list[k][1], coupling_list[k][2]>>
                /\ t.state.j = SumSeq(jn) - 2 * SumSeq(t.diff_list)

\* a three-space product coupled under a non-default scheme has produced a
\* term with a non-zero coefficient and deficiencies in both merges
C1_Witness ==
    /\ pc = "couple_done"
    /\ Len(states) = 3
    /\ jcoupling_list = <<<<2, 3>>>>
    /\ \E i \in 1..Len(result) :
           /\ result[i].coeff.s # 0
           /\ result[i].diff_list[1] > 0
           /\ result[i].diff_list[2] > 0

\* C2: uncouple(couple(T, scheme)) gives back T for every numeric tensor
\* product T and every valid scheme.
C2_RoundTrip == pc = "roundtrip_done" => back = InputProduct

C4_DecodedSumsToOuter ==
    (pc = "couple" /\ config_num > 0) =>
        /\ Len(diff_list) = Len(coupling_list)
        /\ \A k \in 1..Len(diff_list) : diff_list[k] >= 0
        /\ SumSeq(diff_list) = diff_iter - 1

C6_CoupleNormalized == pc = "couple_done" => Norm2(ret) = RadOne

\* C7: the ordered merge list (first space, second space) that uncouple
\* rebuilds from the scheme stored in a state couple emitted equals the merge
\* list couple built from the pair list, the final implicit merge included.
C7_SameMergeList ==
    InCouple =>
        \A i \in 1..Len(result) :
            LET st == result[i].state
                ucl == UncoupleCouplingList(st.j, st.jn, st.coupled_n, st.coupled_jn)
            IN  [k \in 1..Len(ucl) |-> <<ucl[k][1], ucl[k][2]>>] =
                [k \in 1..Len(coupling_list) |->
                    <<coupling_list[k][1], coupling_list[k][2]>>]

\* C8: a ladder operator applied to a constructed Jz ket never fails: Jplus
\* gives 0 when m >= j and hbar*sqrt(j(j+1) - m(m+1))|j,m+1> otherwise, Jminus
\* gives 0 when m <= -j and hbar*sqrt(j(j+1) - m(m-1))|j,m-1> otherwise, and
\* the ket of the result is a valid state.
C8_LadderNeverFails ==
    (op \in {"Jplus", "Jminus"} /\ pc \in {"applied", "error"}) =>
        LET stp == IF op = "Jplus" THEN 2 ELSE -2
            top == IF op = "Jplus" THEN ket.m >= ket.j ELSE ket.m <= -ket.j
            q == Frac(ket.j * (ket.j + 2) - ket.m * (ket.m + stp), 4)
        IN  /\ pc = "applied"
            /\ top => out = {}
            /\ ~top => /\ out = {[state |-> [j |-> ket.j, m |-> ket.m + stp],
                                  hbar |-> 1,
                                  coeff |-> RadOfSurd([s |-> 1, q |-> q])]}
                       /\ Abs(ket.m + stp) <= ket.j

\* C9: for every valid numeric (j, m), J2|j,m> = hbar**2 j(j+1) |j,m> and
\* Jz|j,m> = hbar m |j,m>.
C9_Eigenvalues ==
    (pc = "applied" /\ (ket.j - ket.m) % 2 = 0) =>
        /\ op = "J2" =>
               out = IF ket.j = 0 THEN {}
                     ELSE {[state |-> ket, hbar |-> 2,
                            coeff |-> {[r |-> 1, c |-> Frac(ket.j * (ket.j + 2), 4)]}]}
        /\ op = "Jz" =>
               out = IF ket.m = 0 THEN {}
                     ELSE {[state |-> ket, hbar |-> 1,
                            coeff |-> {[r |-> 1, c |-> Frac(ket.m, 2)]}]}

\* Jz has been applied to |1/2,-1/2> and returned a non-zero multiple of it
C9_Witness ==
    /\ pc = "applied"
    /\ op = "Jz"
    /\ ket = [j |-> 1, m |-> -1]
    /\ out # {}

\* C10: a state is constructed from numeric (j, m) only if 2j and 2m are
\* integers, j >= 0, |m| <= j and j - m is an integer; otherwise the
\* constructor raises.
C10_ConstructorValidates ==
    (op = "none" /\ pc \in {"ket", "error"}) =>
        (pc = "ket" <=>
            /\ args[1] % 2 = 0
            /\ args[2] % 2 = 0
            /\ args[1] >= 0
            /\ Abs(args[2]) <= args[1]
            /\ (args[1] - args[2]) % 4 = 0)

\* C11: a coupled state is validated at construction like any state: no
\* constructed coupled state has j < 0 or |m| > j.
C11_CoupledValidated ==
    pc = "coupled" => cket.j >= 0 /\ Abs(cket.m) <= cket.j

\* the spaces after each merge of coupled_n, read as a partition of the
\* indices: both spaces of a merge are spaces that exist at that step and are
\* different, and the merge replaces them by their union
RECURSIVE C12_PartitionFrom(_, _)
C12_PartitionFrom(coupled_n, groups) ==
    IF coupled_n = <<>> THEN TRUE
    ELSE LET a == Range(Head(coupled_n)[1])
             b == Range(Head(coupled_n)[2])
         IN  /\ a \in groups
             /\ b \in groups
             /\ a # b
             /\ C12_PartitionFrom(Tail(coupled_n), (groups \ {a, b}) \cup {a \cup b})

\* C12: a malformed coupling scheme is rejected at construction: in every
\* constructed coupled state the two spaces of every merge are distinct spaces
\* of the partition of 1..len(jn) that the earlier merges produced.
C12_SchemeWellFormed ==
    pc = "coupled" =>
        C12_PartitionFrom(cket.coupled_n, {{n} : n \in 1..Len(cket.jn)})

\* every pair of the list references two different indices, each the smallest
\* index of the group it belongs to when the pair is read
RECURSIVE C13_SmallestReferenced(_, _)
C13_SmallestReferenced(pairs, groups) ==
    IF pairs = <<>> THEN TRUE
    ELSE LET n1 == Head(pairs)[1]
             n2 == Head(pairs)[2]
             g1 == CHOOSE g \in groups : n1 \in g
             g2 == CHOOSE g \in groups : n2 \in g
         IN  /\ n1 # n2
             /\ \A x \in g1 : n1 <= x
             /\ \A x \in g2 : n2 <= x
             /\ C13_SmallestReferenced(Tail(pairs),
                                   (groups \ {g1, g2}) \cup {g1 \cup g2})

\* C13: couple rejects a scheme of the right length with a ValueError, before
\* coupling_list is built or any term is appended, exactly when the scheme has
\* a pair (n, n) or references an index that is not the smallest of its
\* current group.
C13_SchemeValidation ==
    (pc # "idle" /\ states # <<>> /\ Len(jcoupling_list) = Len(states) - 2) =>
        ((/\ pc = "error"
          /\ err = "ValueError"
          /\ coupling_list = <<>>
          /\ result = <<>>)
         <=> ~C13_SmallestReferenced(jcoupling_list,
                                 {{n} : n \in 1..Len(states)}))

C13_Witness ==
    /\ pc = "error"
    /\ err = "ValueError"
    /\ Len(states) = 4
    /\ jcoupling_list = <<<<1, 2>>, <<2, 3>>>>
    /\ result = <<>>

\* C14: a scheme whose length differs from N-2 is rejected with the entry
\* point's own error: the TypeError of couple.
C14_LengthErrors ==
    (pc = "error" /\ states # <<>> /\ Len(jcoupling_list) # Len(states) - 2)
        => err = "TypeError"

\* 1, 2, .., n as a list
C15_UpTo(n) == [i \in 1..n |-> i]

\* C15: the default scheme is a left fold in both places.  In couple with the
\* pairs (1,2),..,(1,N-1), merge k (counted from 0, as the list is indexed)
\* joins [1..k+1] with [k+2], the last merge [1..N-1] with [N] included; a
\* coupled state constructed without jcoupling has the records
\* (1, n, j_1+..+j_n), n = 2..N-1, and the same spaces at every merge.
C15_DefaultLeftFold ==
    /\ (InCouple /\ jcoupling_list = DefaultCouplingList(Len(states))) =>
           LET N == Len(states)
           IN  /\ \A k \in 0..(N - 3) : jcoupling_list[k + 1] = <<1, k + 2>>
               /\ Len(coupling_list) = N - 1
               /\ \A k \in 0..(N - 2) :
                      coupling_list[k + 1] = <<C15_UpTo(k + 1), <<k + 2>>>>
    /\ (pc = "coupled" /\ ~cargs.explicit) =>
           LET N == Len(cket.jn)
           IN  /\ Len(cket.coupled_n) = N - 2
               /\ \A n \in 2..(N - 1) :
                      /\ cket.coupled_n[n - 1] = <<C15_UpTo(n - 1), <<n>>>>
                      /\ cket.coupled_jn[n - 1] = SumSeq(SubSeq(cket.jn, 1, n))
               /\ cket.coupled_n =
                      Front(BuildCouplingList(N, DefaultCouplingList(N)))

C15_Witness ==
    /\ pc = "coupled"
    /\ ~cargs.explicit
    /\ Len(cket.jn) = 4
    /\ cket.coupled_n = <<<< <<1>>, <<2>> >>, << <<1, 2>>, <<3>> >>>>


\* C16: J2 has a native basis like every other operator, so applying it to a
\* ket of another basis rewrites, applies and rewrites back, and the only
\* failure it can signal is NotImplementedError.
C16_OnlyNotImplemented ==
    (pc = "error" /\ op = "J2" /\ kcls \in {"Jx", "Jy"})
        => err = "NotImplementedError"


\* C17: an operator other than J2 applied to a tensor product of n factors
\* gives n tensor products, the k-th with factor k replaced by the operator
\* applied to it and every other factor unchanged in its position, and
\* returns their sum; J2 raises NotImplementedError and produces no term.
C17_TensorProductRule ==
    (tprod # <<>>) =>
        IF op = "J2"
        THEN pc = "error" /\ err = "NotImplementedError" /\ tresult = <<>>
        ELSE /\ pc = "tensor_applied"
             /\ Len(tresult) = Len(tprod)
             /\ \A k \in 1..Len(tprod) :
                    /\ Len(tresult[k]) = Len(tprod)
                    /\ tresult[k][k] = ApplyToFactor(op, tprod[k]).value
                    /\ \A i \in (1..Len(tprod)) \ {k} :
                           tresult[k][i] = KetAsSum(tprod[i])
             /\ tret = TensorAdd(tresult)

\* Jplus on |1/2,-1/2> x |1/2,1/2> x |1/2,-1/2>: the second product vanishes
C17_Witness ==
    /\ pc = "tensor_applied"
    /\ op = "Jplus"
    /\ tprod = <<[j |-> 1, m |-> -1], [j |-> 1, m |-> 1], [j |-> 1, m |-> -1]>>
    /\ tresult[2][2] = {}
    /\ Cardinality(tret) = 2


\* C18 as stated: symbolic couple returns one summation whose summand has one
\* CG term per merge and a single coupled state, and whose only summation
\* variable is the final j, from the total m to j1 + j2 of the last merge.
C18_OnlyFinalJSummed ==
    pc = "sym_couple" =>
        LET N == Len(sin.states)
            last == Last(sout.cg_terms)
        IN  /\ Len(sout.cg_terms) = N - 1
            /\ sout.limits = <<<<"j", ExprSum([i \in 1..N |-> sin.states[i].m]),
                                 ExprAdd(last[1], last[3])>>>>

\* C18: symbolic couple returns one summation whose summand has one CG term
\* per merge and a single coupled state, and which has one summation
\* variable per merge: the j3 of that merge, from the m3 of the merge to
\* j1 + j2 of the merge; the last variable is the final j, named j, from the
\* total m; for two factors it is
\* Sum(CG(j1,m1,j2,m2,j,m1+m2) * CoupledState(j, m1+m2, (j1,j2)), (j, m1+m2, j1+j2)).
C18_OneVariablePerMerge ==
    pc = "sym_couple" =>
        LET N == Len(sin.states)
            st == sin.states
            mtot == ExprSum([i \in 1..N |-> st[i].m])
        IN  /\ Len(sout.cg_terms) = N - 1
            /\ Len(sout.limits) = N - 1
            /\ \A k \in 1..(N - 1) :
                   LET t == sout.cg_terms[k]
                   IN  /\ t[6] = ExprAdd(t[2], t[4])
                       /\ sout.limits[k] = <<sout.limits[k][1], t[6], ExprAdd(t[1], t[3])>>
                       /\ t[5] = Sym(sout.limits[k][1])
            /\ Last(sout.limits)[1] = "j"
            /\ Last(sout.limits)[2] = mtot
            /\ sout.state.j = Sym("j")
            /\ sout.state.m = mtot
            /\ sout.state.jn = [i \in 1..N |-> st[i].j]
            /\ Len(sout.state.jcoupling) = N - 2
            /\ N = 2 =>
                   /\ sout.cg_terms = <<<<st[1].j, st[1].m, st[2].j, st[2].m,
                                          Sym("j"), ExprAdd(st[1].m, st[2].m)>>>>
                   /\ sout.limits = <<<<"j", ExprAdd(st[1].m, st[2].m),
                                        ExprAdd(st[1].j, st[2].j)>>>>

\* couple of |j1,m1> x |j2,m2> x |1/2,1/2> under the default scheme: the
\* summation runs over j12 and j
C18_Witness ==
    /\ pc = "sym_couple"
    /\ sin.states = <<[j |-> Sym("j1"), m |-> Sym("m1")],
                      [j |-> Sym("j2"), m |-> Sym("m2")],
                      [j |-> Num(1), m |-> Num(1)]>>
    /\ sin.list = <<<<1, 2>>>>
    /\ Len(sout.limits) = 2
    /\ sout.limits[1] = <<"j12", ExprAdd(Sym("m1"), Sym("m2")),
                          ExprAdd(Sym("j1"), Sym("j2"))>>
    /\ sout.limits[2][1] = "j"

\* C19: uncouple over N spaces with a symbol among j, m and the jn takes the
\* symbolic path and returns one summation with the N variables m_1..m_N,
\* m_i from -jn[i] to jn[i], whose summand is the product of the N states
\* (jn[i], m_i) and N-1 CG terms, the last one fixed to (j, m).
C19_SymbolicUncouple ==
    sin.fn = "uncouple" =>
        LET N == Len(sin.jn)
        IN  /\ pc = "sym_uncouple"
            /\ Len(sout.limits) = N
            /\ \A i \in 1..N :
                   /\ sout.limits[i] = <<"m" \o ToString(i), ExprNeg(sin.jn[i]), sin.jn[i]>>
                   /\ sout.state[i] = [j |-> sin.jn[i], m |-> Sym("m" \o ToString(i))]
            /\ Len(sout.cg_terms) = N - 1
            /\ Last(sout.cg_terms)[5] = sin.j
            /\ Last(sout.cg_terms)[6] = sin.m
            /\ \A k \in 1..(N - 2) :
                   sout.cg_terms[k][6] = ExprAdd(sout.cg_terms[k][2], sout.cg_terms[k][4])

\* C20: no summation symbol the engine introduces is a symbol of its input.
C20_FreshSymbols ==
    pc \in {"sym_couple", "sym_uncouple", "sym_rewrite"} =>
        \A k \in 1..Len(sout.limits) : sout.limits[k][1] \notin sin.symbols


\* C21: the decoding terminates: from every entry (every config_num of the
\* range and every value of m it can start with) every while loop exits and
\* the for loop over k ends after finitely many steps.
C21_DecodeTerminates == (pc = "decode") ~> (pc = "decoded")

\* a decoding that started below the outer value, ran its while loops past
\* m = 0 and ended with the list the recursive definition gives
C21_Witness ==
    /\ pc = "decoded"
    /\ dw.n = 3
    /\ dw.m < 0
    /\ dw.diff_list = DecodeConfig(dw.config_num, dw.n, dw.start)


\* C25: for every pair list that passes the validation, the merge list couple
\* builds keeps the groups a partition of 1..N: both spaces of every merge
\* are non-empty, different groups of the partition the earlier merges
\* produced, and the final merge joins the two remaining groups, which cover
\* 1..N.
C25_MergeListPartition ==
    (coupling_list # <<>> /\ states # <<>>) =>
        LET N == Len(states)
            last == Last(coupling_list)
        IN  /\ \A k \in 1..Len(coupling_list) :
                   coupling_list[k][1] # <<>> /\ coupling_list[k][2] # <<>>
            /\ C12_PartitionFrom(coupling_list, {{n} : n \in 1..N})
            /\ Range(last[1]) \cup Range(last[2]) = 1..N


\* the compositions of D into N non-negative parts
RECURSIVE C26_Compositions(_, _)
C26_Compositions(N, D) ==
    IF N = 1 THEN {<<D>>}
    ELSE UNION {{<<d>> \o r : r \in C26_Compositions(N - 1, D - d)} : d \in 0..D}

\* f comes before g in lexicographic order
C26_LexLess(f, g) ==
    \E i \in 1..Len(f) : f[i] < g[i] /\ \A k \in 1..(i - 1) : f[k] = g[k]

\* C26: in uncouple with total deficiency D >= 0, the config indices are
\* 0..C(D+N-1, D)-1 and index c decodes to the composition of D into N parts
\* that has exactly c compositions before it in lexicographic order (a
\* bijection, visited in ascending order); the configuration is skipped
\* exactly when some d_i > 2*jn[i].
C26_DecodedInLexOrder ==
    /\ [](( pc = "uncouple" /\ diff >= 0) =>
            LET comps == C26_Compositions(Len(state.jn), diff)
            IN  /\ tot = Cardinality(comps)
                /\ config_num >= 1 =>
                       /\ diff_list \in comps
                       /\ Cardinality({g \in comps : C26_LexLess(g, diff_list)})
                              = config_num - 1)
    /\ [][(pc = "uncouple" /\ diff >= 0 /\ config_num' = config_num + 1) =>
              (result' = result <=>
                  \E i \in 1..Len(state.jn) : diff_list'[i] > state.jn[i])]_vars

\* index 3 of D = 2 over three spaces 1/2 has been decoded to (1, 0, 1)
C26_Witness ==
    /\ pc = "uncouple"
    /\ Len(state.jn) = 3
    /\ diff = 2
    /\ config_num = 4
    /\ diff_list = <<1, 0, 1>>

\* C27: applying Jplus or Jminus to a coupled Jz ket gives zero at the end of
\* the ladder (m = j for Jplus, m = -j for Jminus) and otherwise
\* hbar*sqrt(j(j+1) - m(m +/- 1)) times the coupled ket with m +/- 1 and the
\* same jn and coupling scheme; Jx and Jy, built from the two, give a result
\* as well
C27_CoupledLadder ==
    (/\ cket # NoState
     /\ cket.j >= 0 /\ -cket.j <= cket.m /\ cket.m <= cket.j
     /\ (cket.j - cket.m) % 2 = 0
     /\ op \in {"Jplus", "Jminus", "Jx", "Jy"}) =>
        /\ pc = "applied"
        /\ op \in {"Jplus", "Jminus"} =>
               LET d == IF op = "Jplus" THEN 2 ELSE -2
                   atEnd == IF op = "Jplus" THEN cket.m >= cket.j
                            ELSE cket.m <= -cket.j
               IN  IF atEnd THEN out = {}
                   ELSE /\ Cardinality(out) = 1
                        /\ \A t \in out :
                               /\ t.state = [cket EXCEPT !.m = cket.m + d]
                               /\ t.hbar = 1
                               /\ t.coeff = RadOfSurd(
                                      [s |-> 1,
                                       q |-> Frac(cket.j * (cket.j + 2)
                                                  - cket.m * (cket.m + d), 4)])

\* C28: the commutator rules between Jx, Jy and Jz are antisymmetric, the
\* result for the ordered pair (A, B) being the negative of the result for
\* (B, A), and give the cyclic algebra [Jx,Jy] = i*hbar*Jz, [Jy,Jz] =
\* i*hbar*Jx, [Jz,Jx] = i*hbar*Jy on the same named system
C28_Cyclic == [Jx |-> [Jy |-> "Jz"], Jy |-> [Jz |-> "Jx"], Jz |-> [Jx |-> "Jy"]]

C28_Antisymmetric ==
    (pc = "commutator" /\ comm.a \in {"Jx", "Jy", "Jz"}
        /\ comm.b \in {"Jx", "Jy", "Jz"} /\ comm.a # comm.b) =>
        /\ comm.value = CommNeg(_eval_commutator(comm.b, comm.a))
        /\ comm.rname = comm.name
        /\ comm.b \in DOMAIN C28_Cyclic[comm.a] =>
               comm.value = CommValue(0, 1, C28_Cyclic[comm.a][comm.b])

\* the small-d function at pi/2 by Wigner's formula, independent of the
\* binomial sum: 2**(-j) * sum over s of (-1)**(m-mp+s) *
\* sqrt((j+m)!(j-m)!(j+mp)!(j-mp)!) / ((j+mp-s)! s! (m-mp+s)! (j-m-s)!),
\* as a Rad; j, m, mp doubled
C22_WignerSum(j, m, mp) ==
    LET S == {s \in 0..j : /\ 2 * s <= j + mp /\ 2 * s <= j - m
                           /\ 2 * s >= mp - m}
        term(s) == Frac(IF (((m - mp) \div 2) + s) % 2 = 0 THEN 1 ELSE -1,
                        Fact((j + mp) \div 2 - s) * Fact(s)
                        * Fact((m - mp) \div 2 + s) * Fact((j - m) \div 2 - s))
        T == {<<s, {[r |-> 1, c |-> term(s)]}>> : s \in S}
    IN  RadCoef(RadSumSet(T), 1)

C22_SmallD(j, m, mp) ==
    LET q == C22_WignerSum(j, m, mp)
        n == Fact((j + m) \div 2) * Fact((j - m) \div 2)
             * Fact((j + mp) \div 2) * Fact((j - mp) \div 2)
    IN  RadOfSurd([s |-> Sign(q[1]),
                   q |-> FracMul(FracMul(q, q), Frac(n, Pow2(j)))])

\* C22: WignerD(j, m, m', alpha, beta, gamma).doit() for numeric j equals
\* exp(-i*m*alpha) * d(j, m, m', beta) * exp(-i*m'*gamma); for beta = pi/2
\* the small-d is the closed-form sum over exactly the k with
\* max(0, m'-m) <= k <= min(j+m', j-m) (d is the identity at beta = 0);
\* WignerD(1,1,0,pi,pi/2,0).doit() = sqrt(2)/2 and
\* WignerD(1,1,0,0,pi/2,0).doit() = -sqrt(2)/2; doit with a non-numeric j
\* fails with an error instead of returning a value
C22_WignerDoit ==
    (wd.fn = "doit") =>
        LET w == wd.w
            d == IF w.beta = 1
                 THEN [re |-> C22_SmallD(w.j, w.m, w.mp), im |-> RadZero]
                 ELSE IF w.m = w.mp THEN COne ELSE CZero
        IN  IF ~w.numeric THEN pc = "error" /\ err = "ValueError"
            ELSE /\ pc = "wignerd"
                 /\ wd.value = CMul(CMul(CExp8(w.m * w.alpha), d),
                                    CExp8(w.mp * w.gamma))
                 /\ wd.ks = {k \in 0..w.j :
                                /\ 2 * k >= 0 /\ 2 * k >= w.mp - w.m
                                /\ 2 * k <= w.j + w.mp /\ 2 * k <= w.j - w.m}
                 /\ (w.j = 2 /\ w.m = 2 /\ w.mp = 0 /\ w.beta = 1 /\ w.gamma = 0) =>
                        /\ w.alpha = 2 =>
                               wd.value = [re |-> RadHalfSqrt2, im |-> RadZero]
                        /\ w.alpha = 0 =>
                               wd.value = [re |-> RadNeg(RadHalfSqrt2), im |-> RadZero]

\* WignerD(1, 1, 0, pi, pi/2, 0).doit() has returned sqrt(2)/2
C22_Witness ==
    /\ pc = "wignerd"
    /\ wd.w = [j |-> 2, m |-> 2, mp |-> 0, alpha |-> 2, beta |-> 1, gamma |-> 0,
               numeric |-> TRUE]
    /\ wd.ks = {0}
    /\ wd.value = [re |-> RadHalfSqrt2, im |-> RadZero]

\* C23: compute_density, compute_cdf and sorted_cdf are memoised by their
\* arguments: a call with arguments equal to those of an earlier call returns
\* the stored result without enumerating the domain again, and that result
\* is what a fresh computation returns
C23_Memoised ==
    (pc = "space" /\ fp.hit) =>
        /\ ~fp.enumerated
        /\ LET d == compute_density(fp.density, fp.key[1])
           IN  CASE fp.fn = "compute_density" -> fp.ret = d
                 [] fp.fn = "compute_cdf" -> fp.ret = CdfOf(d)
                 [] OTHER -> fp.ret \in SortedOrders(CdfOf(d))

\* C24: restricting a finite domain by a condition whose symbols belong to
\* the domain succeeds, and an element is yielded by iterating the restricted
\* domain exactly when it is a member of it, exactly when it belongs to the
\* full domain and the condition is true on it; a condition with a foreign
\* symbol is rejected with ValueError
C24_RestrictedDomain ==
    (pc = "space" /\ fp.fn = "where") =>
        LET cond == fp.key[1]
        IN  IF cond.foreign THEN fp.raised = "ValueError"
            ELSE /\ fp.raised = "none"
                 /\ \A v \in Values :
                        /\ v \in DomainIter(fp.ret) <=> DomainContains(fp.ret, v)
                        /\ DomainContains(fp.ret, v) <=>
                               (v \in DOMAIN fp.density /\ _test(cond, v))

\* C29: for a space whose probabilities sum to 1, conditional_space(condition)
\* returns a density with an entry for exactly the elements of the original
\* density that satisfy the condition, each the original probability divided
\* by P(condition), the sum of the probabilities of the elements satisfying
\* the condition; the entries sum to 1 and none is a division by zero
C29_ConditionalDensity ==
    (pc = "space" /\ fp.fn = "conditional_space" /\ ~fp.key[1].foreign) =>
        LET cond == fp.key[1]
            sat == {v \in DOMAIN fp.density : _test(cond, v)}
            p == SumProb(fp.density, sat)
        IN  /\ fp.raised = "none"
            /\ DOMAIN fp.ret = sat
            /\ \A v \in sat : p # 0 /\ fp.ret[v] = Frac(fp.density[v], p)

\* C30: sample never reaches its final assertion; the value returned for
\* the draw x is the one whose interval [cum_prob - prob, cum_prob) of the
\* cumulative distribution contains x, so a value of probability zero is
\* never returned
C30_SampleInterval ==
    (pc = "space" /\ fp.fn = "sample") =>
        /\ fp.raised = "none"
        /\ LET x == fp.key[1]
               cum == CdfOf(fp.density)[fp.ret]
           IN  /\ 2 * (cum - fp.density[fp.ret]) <= x
               /\ x < 2 * cum
               /\ fp.density[fp.ret] > 0

====
